---- MODULE Spec2Model ----
(***************************************************************************)
(* A model of the asynchronous multi-turn rollout engine                   *)
(* (verl/workers/rollout/vllm_rollout/vllm_async_engine.py):               *)
(*   generate_sequences  =  _preprocess_prompt_to_async_rollout_requests,  *)
(*                          one _async_rollout_a_request task per request, *)
(*                          asyncio.gather, sorted, post_process.          *)
(* Python lists are heap objects: a request holds the ADDRESS of its token *)
(* list and of its image list, so that aliasing between the n samples of   *)
(* one prompt is something the model can exhibit.                          *)
(***************************************************************************)
EXTENDS Integers, Sequences, FiniteSets, TLC

VARIABLES
    config,     \* self.config.rollout (read-only after construction)
    prompts,    \* the DataProto handed to generate_sequences
    tokHeap,    \* address -> list of tokens; a token is <<id, origin>>
    imgHeap,    \* address -> list of images (multi_modal_data['image'])
    req_list,   \* the AsyncRolloutRequest objects built by the preprocessing
    task,       \* per request: the locals of its _async_rollout_a_request task
    phase,      \* position of generate_sequences
    batch,      \* the DataProto built by post_process
    adv,        \* one call of an advantage estimator of core_algos.py
    loss,       \* one call of a loss or penalty function of core_algos.py
    kl_ctrl     \* the KL controller object of core_algos.py

vars == <<config, prompts, tokHeap, imgHeap, req_list, task, phase, batch, adv, loss, kl_ctrl>>

----------------------------------------------------------------------------
(* Bounds of the model *)

MaxPrompts == 2     \* prompts per input batch (B)
MaxSamples == 2     \* samples per prompt (rollout.n, rollout.val_n)
MaxRounds  == 3     \* rollout.max_generation_round, val_max_generation_round
MaxImages  == 2     \* limit_mm_per_prompt['image'], val_limit_mm_per_prompt
MaxWork    == 4     \* requests * rounds explored together in one batch
MaxBatch   == 3     \* rows of an estimator's input (bs)
MaxLen     == 3     \* response_length of an estimator's input
MaxCells   == 4     \* bs * response_length explored together in one call
MaxLossCells == 2   \* bs * response_length of a compute_policy_loss call
MaxGspoCells == 6   \* bs * response_length of a compute_policy_loss_gspo call
MaxUpdates == 2     \* calls of update on one KL controller

(* Program constants *)

IM_END          == 151645   \* <|im_end|>, the end-of-sequence token
image_pad_token == 151655   \* <|image_pad|>
magic_num       == 654321
MaxTokenId      == 151664   \* ids above it are filtered out of a response
SafetyMargin    == 2000     \* max_total_response_length - 2000

----------------------------------------------------------------------------
(* Tokenizer.  Ordinary text is tokenised into the pieces of Vocab; the id  *)
(* of a piece is its index.  The two special tokens the code names by      *)
(* number keep their numbers.                                             *)

Vocab == << "text", "<grounding>", "{bbox_ok}", "{bbox_evalerr}", "{junk}",
            "</grounding>", "<answer>", "</answer>",
            "<|im_start|>user", "<|im_start|>assistant",
            "<tool_call_crop_prompt>", "<error_info_prompt>",
            "<prompt-1>", "<prompt-2>", "<prompt-3>", "<pad>" >>

TokenId(piece) == CHOOSE i \in DOMAIN Vocab : Vocab[i] = piece

\* a token id the filter of line 682 drops
OutOfVocabId == MaxTokenId + 1

pad_token_id == TokenId("<pad>")

IsSpecial(id) == id \in {IM_END, image_pad_token} \/ id > MaxTokenId
                 \/ (id \in DOMAIN Vocab /\ Vocab[id] \in
                       {"<|im_start|>user", "<|im_start|>assistant", "<pad>"})

Id(tok)     == tok[1]
Origin(tok) == tok[2]
Ids(toks)   == [k \in DOMAIN toks |-> Id(toks[k])]
Tag(ids, origin) == [k \in DOMAIN ids |-> <<ids[k], origin>>]

\* tokenizer.decode(ids, skip_special_tokens=True): the text, as its pieces
decode(ids) ==
    LET plain == SelectSeq(ids, LAMBDA id : ~IsSpecial(id))
    IN  [k \in DOMAIN plain |-> Vocab[plain[k]]]

----------------------------------------------------------------------------
(* Text matching, on the pieces of a decoded response *)

\* grounding_pattern.findall(text): r'<grounding>(.*?)</grounding>'
tool_call_contents(text) ==
    { <<i, j>> \in (DOMAIN text) \X (DOMAIN text) :
         i < j /\ text[i] = "<grounding>" /\ text[j] = "</grounding>" }

\* re.match('.*<grounding>{"bbox_2d": (.*),.*"source": [\',"](.*)[\',"]}</grounding>')
\* "{bbox_ok}" and "{bbox_evalerr}" are the argument texts the pattern accepts;
\* eval() raises on the second.  The result is the matched argument piece, or
\* "None" when re.match returns None.
grounding_match(text) ==
    LET hits == { i \in DOMAIN text :
                    /\ i + 2 \in DOMAIN text
                    /\ text[i] = "<grounding>"
                    /\ text[i + 1] \in {"{bbox_ok}", "{bbox_evalerr}"}
                    /\ text[i + 2] = "</grounding>" }
    IN  IF hits = {} THEN "None"
        ELSE text[(CHOOSE i \in hits : \A k \in hits : k <= i) + 1]

\* re.match(".*<answer>.*</answer>$", text, re.DOTALL) is not None
answer_match(text) ==
    /\ Len(text) >= 2
    /\ text[Len(text)] = "</answer>"
    /\ \E i \in 1..(Len(text) - 1) : text[i] = "<answer>"

----------------------------------------------------------------------------
(* The generation engine (external): what one completed call may return *)

Grounding(args) ==
    << TokenId("<grounding>"), TokenId(args), TokenId("</grounding>") >>

EngineOutputs ==
    { [token_ids |-> <<TokenId("<answer>"), TokenId("</answer>"), IM_END>>,
       finish_reason |-> "stop"],
      [token_ids |-> <<TokenId("text"), IM_END>>, finish_reason |-> "stop"],
      [token_ids |-> <<TokenId("<answer>"), TokenId("</answer>")>>,
       finish_reason |-> "length"],
      [token_ids |-> <<TokenId("<answer>"), TokenId("</answer>"),
                       TokenId("text"), IM_END>>, finish_reason |-> "stop"],
      [token_ids |-> Grounding("{bbox_ok}"), finish_reason |-> "stop"],
      [token_ids |-> Grounding("{bbox_evalerr}"), finish_reason |-> "stop"],
      [token_ids |-> Grounding("{junk}"), finish_reason |-> "stop"],
      [token_ids |-> <<OutOfVocabId, TokenId("<answer>"), TokenId("</answer>"),
                       IM_END>>, finish_reason |-> "stop"],
      [token_ids |-> <<image_pad_token, TokenId("<answer>"),
                       TokenId("</answer>"), IM_END>>, finish_reason |-> "stop"] }

\* FinishReasonTypeEnum.from_str(finish_reason) == FinishReasonTypeEnum.LENGTH
IsLength(finish_reason) == finish_reason = "length"

----------------------------------------------------------------------------
(* Images.  An image is <<kind, tokens>>: tokens is what the image          *)
(* processor's grid gives for it, image_grid_thw.prod() // merge_length.   *)

DownscaledImage == <<"downscaled", 1>>
ImagePath       == <<"path", 0>>
CropTokenNums   == {1, 3}

load_image(path) == <<"original", 0>>
calculate_image_token_num(image) == image[2]
ImageSize(image) == <<"size", image>>

----------------------------------------------------------------------------
(* Small list helpers *)

Front(s) == SubSeq(s, 1, Len(s) - 1)          \* s after s.pop()
Last(s)  == s[Len(s)]

RECURSIVE Concat(_)
Concat(fragments) ==                          \* torch.cat(fragments, dim=0)
    IF fragments = <<>> THEN <<>>
    ELSE Head(fragments) \o Concat(Tail(fragments))

Repeat(x, count) == [k \in 1..count |-> x]    \* [x] * count

Has(s, x) == \E k \in DOMAIN s : s[k] = x
IndexOf(s, x) == CHOOSE k \in DOMAIN s : s[k] = x /\ \A m \in 1..(k - 1) : s[m] # x

----------------------------------------------------------------------------
(* process_tool_call *)

\* the encoded user turn that carries a cropped image
ImageTurnIds ==
    << IM_END, TokenId("<|im_start|>user"), TokenId("<tool_call_crop_prompt>"),
       image_pad_token, IM_END, TokenId("<|im_start|>assistant") >>

\* the encoded user turn that carries the error text
ErrorTurnIds ==
    << IM_END, TokenId("<|im_start|>user"), TokenId("<error_info_prompt>"),
       IM_END, TokenId("<|im_start|>assistant") >>

\* What prepare_grounding_inputs_multi_turn may do with well-formed arguments
PrepareOutcomes == {"grounding", "raise"}

\* ParseFails that misses the failures raised after the regex matched
ParseFails_regex_only(text, prepared) ==
    grounding_match(text) = "None"

\* lines 521-531: error_info is not None
ParseFails(text, prepared) ==
    \/ grounding_match(text) = "None"            \* match.group on None
    \/ grounding_match(text) = "{bbox_evalerr}"  \* eval(bbox) raises
    \/ prepared = "raise"

\* UserTurnMask built with ones_like
UserTurnMask_ones(ids) == Repeat(1, Len(ids))

\* the dtype/zeros fragment appended for a user turn
UserTurnMask(ids) == Repeat(0, Len(ids))

\* process_tool_call(vllm_input, decoded_resp_, observations_list,
\*                   image_size_used_list, multi_turn_response_mask, ...)
\* on the lists it is handed: their values after the call, and its results.
\* `prepared` and `crop` are what the two external tool functions return.
process_tool_call(toks, images, text, observations, sizes, masks, prepared, crop) ==
    IF ParseFails(text, prepared)
    THEN [ toks         |-> toks \o Tag(ErrorTurnIds, "observation"),
           images       |-> images,
           observations |-> observations,
           sizes        |-> sizes,
           masks        |-> Append(masks, UserTurnMask(ErrorTurnIds)),
           new_context_length |-> Len(ErrorTurnIds),
           tool_outputs |-> "text" ]
    ELSE [ toks         |-> toks \o Tag(ImageTurnIds, "observation"),
           images       |-> Append(images, crop),
           observations |-> Append(observations, crop),
           sizes        |-> Append(sizes, ImageSize(crop)),
           masks        |-> Append(masks, UserTurnMask(ImageTurnIds)),
           new_context_length |->
               Len(ImageTurnIds) + calculate_image_token_num(crop) - 1,
           tool_outputs |-> "image" ]

----------------------------------------------------------------------------
(* post_process_single *)

\* the while loop of lines 472-479; index counts from 0 as in the code
RECURSIVE ExpandImagePads(_, _, _, _)
ExpandImagePads(response, response_masks, index, images) ==
    IF ~Has(Ids(response), image_pad_token)
    THEN [ok |-> TRUE, response |-> response, masks |-> response_masks]
    ELSE IF Len(images) <= 1 \/ index + 1 > Len(images) - 1
    THEN \* image_grid_thws is unbound, or indexed past its end
         [ok |-> FALSE, response |-> response, masks |-> response_masks]
    ELSE LET pos    == IndexOf(Ids(response), image_pad_token)
             repeat == calculate_image_token_num(images[index + 2])
             origin == Origin(response[pos])
         IN  ExpandImagePads(
                 SubSeq(response, 1, pos - 1)
                     \o Repeat(<<magic_num, origin>>, repeat)
                     \o SubSeq(response, pos + 1, Len(response)),
                 SubSeq(response_masks, 1, pos - 1)
                     \o Repeat(0, repeat)
                     \o SubSeq(response_masks, pos + 1, Len(response_masks)),
                 index + 1, images)

post_process_single(prefix_length, toks, images, masks) ==
    LET generation_response_ids == SubSeq(toks, prefix_length + 1, Len(toks))
        all_response_masks      == Concat(Tail(masks))
    IN  IF Len(generation_response_ids) # Len(all_response_masks)
        THEN [ok |-> FALSE, response |-> <<>>, masks |-> <<>>]   \* the assert
        ELSE LET e == ExpandImagePads(generation_response_ids,
                                      all_response_masks, 0, images)
             IN  [ok       |-> e.ok,
                  response |-> [k \in DOMAIN e.response |->
                                  IF Id(e.response[k]) = magic_num
                                  THEN <<image_pad_token, Origin(e.response[k])>>
                                  ELSE e.response[k]],
                  masks    |-> e.masks]

----------------------------------------------------------------------------
(* The decisions of the turn loop of _async_rollout_a_request *)

\* line 682: filtered_token_ids
filtered_token_ids(token_ids) == SelectSeq(token_ids, LAMBDA id : id <= MaxTokenId)

\* AssistantMask that leaves the end-of-sequence token out
AssistantMask_no_eos(response_) ==
    [k \in DOMAIN response_ |-> IF response_[k] = IM_END THEN 0 ELSE 1]

\* line 691: the fragment appended for an assistant turn
AssistantMask(response_) == Repeat(1, Len(response_))

\* lines 647-652: the round and image limits the request runs under
max_iterations_of(cfg, is_validate) ==
    IF is_validate /\ cfg.val_max_generation_round # 1
    THEN cfg.val_max_generation_round ELSE cfg.max_generation_round

max_image_num_of(cfg, is_validate) ==
    IF is_validate /\ cfg.val_max_generation_round # 1
    THEN cfg.val_limit_mm_per_prompt ELSE cfg.limit_mm_per_prompt

\* BudgetExceeded without the image count
BudgetExceeded_rounds_only(images, max_image_num, current_iteration, max_iterations) ==
    current_iteration = max_iterations - 1

\* BudgetExceeded without the last round
BudgetExceeded_images_only(images, max_image_num, current_iteration, max_iterations) ==
    Len(images) >= max_image_num

\* BudgetExceeded that lets one image above the limit in
BudgetExceeded_images_above(images, max_image_num, current_iteration, max_iterations) ==
    Len(images) > max_image_num \/ current_iteration = max_iterations - 1

\* line 703
BudgetExceeded(images, max_image_num, current_iteration, max_iterations) ==
    Len(images) >= max_image_num \/ current_iteration = max_iterations - 1

\* ContextExceeded with > for >=
ContextExceeded_strict(context_length, max_total_response_length) ==
    context_length > max_total_response_length - SafetyMargin

\* lines 707 and 716
ContextExceeded(context_length, max_total_response_length) ==
    context_length >= max_total_response_length - SafetyMargin

\* IsVoid with `and` for `or`
IsVoid_and(finish_reason, text) == IsLength(finish_reason) /\ ~answer_match(text)

\* line 729
IsVoid(finish_reason, text) == IsLength(finish_reason) \/ ~answer_match(text)

\* line 660: the while condition
LoopContinues(current_iteration, max_iterations) == current_iteration < max_iterations

\* deepcopy that hands back the lists of req themselves
deepcopy_alias(req, r) == req.raw_prompt_id

\* line 587: where the lists of deepcopy(req) live
deepcopy(req, r) == <<"copy", r>>

\* line 711: deepcopy(vllm_input['prompt_token_ids'])
SavedBuffer(toks) == toks

\* RolledBack that leaves the fragment of the user turn in the mask list
RolledBack_mask_kept(old, images, sizes, observations, masks, tool_outputs) ==
    [ toks         |-> old,
      images       |-> IF tool_outputs = "image" THEN Front(images) ELSE images,
      sizes        |-> IF tool_outputs = "image" THEN Front(sizes) ELSE sizes,
      observations |-> IF tool_outputs = "image" THEN Front(observations)
                       ELSE observations,
      masks        |-> masks ]

\* lines 717-722: the lists after the roll back
RolledBack(old, images, sizes, observations, masks, tool_outputs) ==
    [ toks         |-> old,
      images       |-> IF tool_outputs = "image" THEN Front(images) ELSE images,
      sizes        |-> IF tool_outputs = "image" THEN Front(sizes) ELSE sizes,
      observations |-> IF tool_outputs = "image" THEN Front(observations)
                       ELSE observations,
      masks        |-> Front(masks) ]

\* round_num_of that reports the index of the last round
round_num_of_last_index(current_iteration) == current_iteration

\* line 797: _req.round_num
round_num_of(current_iteration) == current_iteration + 1

\* lines 744-798: what follows the loop, up to the return
Finish(t, toks, images) ==
    LET p == post_process_single(t.prefix_length, toks, images,
                                 t.multi_turn_response_mask)
    IN  IF p.ok
        THEN [t EXCEPT !.pc = "done",
                       !.all_response_ids = p.response,
                       !.all_response_masks = p.masks,
                       !.round_num = round_num_of(t.current_iteration)]
        ELSE [t EXCEPT !.pc = "error"]

----------------------------------------------------------------------------
(* Padded tensors.  A row is kept as its explicit cells followed by `pad`   *)
(* trailing columns holding `fill`; its width is Len(cells) + pad.         *)

Row(cells, pad, fill) == [cells |-> cells, pad |-> pad, fill |-> fill]
Width(row) == Len(row.cells) + row.pad
Cell(row, k) == IF k <= Len(row.cells) THEN row.cells[k] ELSE row.fill

Max(S) == CHOOSE x \in S : \A y \in S : y <= x

\* pad_to_max_stack(tensor_list, pad_value, dim=0)
pad_to_max_stack(tensor_list, pad_value) ==
    LET max_len == Max({Len(tensor_list[k]) : k \in DOMAIN tensor_list})
    IN  [k \in DOMAIN tensor_list |->
           Row(tensor_list[k], max_len - Len(tensor_list[k]), pad_value)]

\* lines 893-898: cut or pad every row to max_total_response_length
CutOrPad(rows, length, pad_value) ==
    [k \in DOMAIN rows |->
       IF Width(rows[k]) > length
       THEN IF Len(rows[k].cells) >= length
            THEN Row(SubSeq(rows[k].cells, 1, length), 0, rows[k].fill)
            ELSE Row(rows[k].cells, length - Len(rows[k].cells), rows[k].fill)
       ELSE IF Width(rows[k]) < length
       THEN IF rows[k].pad = 0
            THEN Row(rows[k].cells, length - Width(rows[k]), pad_value)
            ELSE Row(rows[k].cells \o Repeat(rows[k].fill, rows[k].pad),
                     length - Width(rows[k]), pad_value)
       ELSE rows[k]]

\* _repeat_interleave that tiles the batch (value.repeat)
_repeat_interleave_tiled(value, repeats) ==
    [k \in 1..(Len(value) * repeats) |-> value[((k - 1) % Len(value)) + 1]]

\* _repeat_interleave(value, repeats)
_repeat_interleave(value, repeats) ==
    [k \in 1..(Len(value) * repeats) |-> value[((k - 1) \div repeats) + 1]]

\* torch.cat((left, right), dim=-1): the rows of left are plain sequences
CatColumns(left, right) ==
    [k \in DOMAIN right |-> Row(left[k] \o right[k].cells, right[k].pad, right[k].fill)]

\* sorted(output_req_list, key=lambda x: (x.batch_data_id, x.rollout_offset))
KeyLeq(a, b) ==
    \/ a.batch_data_id < b.batch_data_id
    \/ a.batch_data_id = b.batch_data_id /\ a.rollout_offset <= b.rollout_offset

RECURSIVE Insert(_, _)
Insert(sorted_list, x) ==
    IF sorted_list = <<>> THEN <<x>>
    ELSE IF KeyLeq(Last(sorted_list), x) THEN Append(sorted_list, x)
    ELSE Append(Insert(Front(sorted_list), x), Last(sorted_list))

RECURSIVE sorted(_)
sorted(list) ==
    IF list = <<>> THEN <<>> ELSE Insert(sorted(Front(list)), Last(list))

----------------------------------------------------------------------------
(* post_process *)

EmptyBatch ==
    [ prompts |-> <<>>, responses |-> <<>>, input_ids |-> <<>>,
      attention_mask |-> <<>>, multi_turn_response_mask |-> <<>>,
      position_ids |-> <<>>,
      exceed_mask |-> <<>>, void_mask |-> <<>>,
      multi_modal_data |-> <<>>, valid_mask |-> <<>>,
      rounds_nums |-> <<>>, source |-> <<>>, invalid_mask |-> <<>> ]

\* lines 904-908: the prompt tensors, repeated for the n samples of a prompt
RepeatedPrompts(value, n, do_sample) ==
    IF n > 1 /\ do_sample THEN _repeat_interleave(value, n) ELSE value

\* the samples per prompt (lines 827 and 904)
SamplesPerPrompt(cfg, is_validate) == IF is_validate THEN cfg.val_n ELSE cfg.n

\* exceed_list that reads the void flag
exceed_list_of_void(output_req_list) ==
    [k \in DOMAIN output_req_list |-> output_req_list[k].void]

\* lines 875 and 960: exceed_list, and the tensor made of it
exceed_list(output_req_list) ==
    [k \in DOMAIN output_req_list |-> output_req_list[k].exceed]

\* lines 878 and 961: void_list, and the tensor made of it
void_list(output_req_list) ==
    [k \in DOMAIN output_req_list |-> output_req_list[k].void]

\* None
NoPayload == << <<"None", 0>> >>

\* line 988: what get_valid_mask may answer for the rows: any boolean
\* invalid_mask (kept in the batch of the model as batch.invalid_mask); the
\* valid_mask it answers with is kept by its shape
ValidityOutcomes(rows) ==
    { [invalid_mask |-> m, valid_mask |-> [k \in 1..rows |-> "classified"]] :
        m \in [1..rows -> BOOLEAN] }

\* validation mode: get_valid_mask is not called
NotClassified == [invalid_mask |-> <<>>, valid_mask |-> <<>>]

\* ClearedPayload that drops the invalid rows
ClearedPayload_dropped(multi_modal_data_list, invalid_mask) ==
    SelectSeq(multi_modal_data_list,
              LAMBDA d : \E k \in DOMAIN multi_modal_data_list :
                            multi_modal_data_list[k] = d /\ ~invalid_mask[k])

\* line 991: non_tensor_batch['multi_modal_data'][invalid_mask] = None
ClearedPayload(multi_modal_data_list, invalid_mask) ==
    [k \in DOMAIN multi_modal_data_list |->
       IF invalid_mask[k] THEN NoPayload ELSE multi_modal_data_list[k]]

\* lines 937-949: the position ids get_rope_index gives, one row per
\* sequence; kept by their shape
RopePositionIds(seq) ==
    [k \in DOMAIN seq |-> Row(<<>>, Width(seq[k]), "rope")]

\* post_process(prompts, output_req_list): [ok |-> FALSE] when it raises.
\* `classified` is what get_valid_mask answers when it is called.
\* The attention mask is kept by its shape: one Row of unspecified cells per
\* row (get_final_eos_mask returns a tensor shaped like the response).
post_process(p, cfg, output_req_list, images_of, classified) ==
    LET length   == cfg.max_total_response_length
        response == CutOrPad(
            pad_to_max_stack([k \in DOMAIN output_req_list |->
                                output_req_list[k].all_response_ids],
                             <<pad_token_id, "padding">>),
            length, <<pad_token_id, "padding">>)
        response_generation_mask == CutOrPad(
            pad_to_max_stack([k \in DOMAIN output_req_list |->
                                output_req_list[k].all_response_masks], 0),
            length, 0)
        n == SamplesPerPrompt(cfg, p.meta_info.is_validate)
        prompt_ids     == RepeatedPrompts(p.input_ids, n, p.meta_info.do_sample)
        attention_mask == RepeatedPrompts(p.attention_mask, n, p.meta_info.do_sample)
        response_attention_mask ==
            [k \in DOMAIN response |-> Row(<<>>, Width(response[k]), "attn")]
        input_prompt_generation_mask ==
            [k \in DOMAIN prompt_ids |-> Repeat(0, Len(prompt_ids[k]))]
        multi_modal_data_list ==
            [k \in DOMAIN output_req_list |->
               images_of[output_req_list[k].multi_modal_data]]
        seq == CatColumns([k \in DOMAIN prompt_ids |-> Tag(prompt_ids[k], "prompt")],
                          response)
    IN  IF Len(prompt_ids) # Len(response)
        THEN [ok |-> FALSE, why |-> "torch.cat: sizes of tensors must match",
              batch |-> EmptyBatch]
        ELSE IF p.position_dim # 3
        THEN [ok |-> FALSE, why |-> "UnboundLocalError: batch_size",
              batch |-> EmptyBatch]
        ELSE [ok |-> TRUE, why |-> "",
              batch |->
                [ prompts   |-> prompt_ids,
                  responses |-> response,
                  input_ids |-> seq,
                  position_ids |-> RopePositionIds(seq),
                  attention_mask |-> CatColumns(attention_mask, response_attention_mask),
                  multi_turn_response_mask |->
                      CatColumns(input_prompt_generation_mask, response_generation_mask),
                  exceed_mask |-> exceed_list(output_req_list),
                  void_mask   |-> void_list(output_req_list),
                  multi_modal_data |->
                      IF p.meta_info.is_validate THEN multi_modal_data_list
                      ELSE ClearedPayload(multi_modal_data_list,
                                          classified.invalid_mask),
                  valid_mask  |->
                      IF p.meta_info.is_validate THEN <<>>
                      ELSE classified.valid_mask,
                  rounds_nums |-> [k \in DOMAIN output_req_list |->
                                     output_req_list[k].round_num],
                  source      |-> [k \in DOMAIN output_req_list |->
                                     << output_req_list[k].batch_data_id,
                                        output_req_list[k].rollout_offset >>],
                  invalid_mask |-> classified.invalid_mask ]]

----------------------------------------------------------------------------
(* The inputs: the configuration and the DataProto of prompts *)

PromptPieces == << "<prompt-1>", "<prompt-2>", "<prompt-3>" >>

\* prompts.non_tensor_batch["raw_prompt_ids"][b]: the unpadded prompt, which
\* holds one <|image_pad|> for the downscaled image
RawPromptIds(b) == << TokenId(PromptPieces[b]), image_pad_token >>

\* prompts.batch['input_ids'][b] and ['attention_mask'][b]: left padded
PaddedPromptIds(b)  == << pad_token_id >> \o RawPromptIds(b)
PaddedPromptMask(b) == << 0, 1, 1 >>

\* prompts.batch['position_ids'][b] when they are 2-D: the positions of the
\* attended prompt tokens, 0 under the left padding
PaddedPromptPositions(b) == << 0, 0, 1 >>

\* rollout.max_total_response_length: one value below the safety margin,
\* two above it
MaxTotalChoices == { 3, SafetyMargin + 12, SafetyMargin + 21 }

Configs ==
    [ n : 1..MaxSamples, val_n : 1..MaxSamples,
      max_generation_round : 1..MaxRounds,
      val_max_generation_round : 1..MaxRounds,
      limit_mm_per_prompt : 1..MaxImages,
      val_limit_mm_per_prompt : 1..MaxImages,
      max_total_response_length : MaxTotalChoices ]

MetaInfos == [ do_sample : BOOLEAN, is_validate : BOOLEAN ]

\* Settings the run never reads stay at their defaults, the requests times
\* rounds of one batch stay within MaxWork, and the two inputs that only
\* post_process reads (greedy decoding, 2-D position ids) are explored on
\* single-prompt, single-round batches.  An image limit above the round
\* limit never binds (a request holds at most one image per round), so the
\* image limit stays within the round limit.
Explored(cfg, meta, B, position_dim) ==
    /\ meta.is_validate =>
          /\ cfg.n = 1
          /\ cfg.val_max_generation_round = 1 => cfg.val_limit_mm_per_prompt = 1
          /\ cfg.val_max_generation_round # 1 =>
                cfg.max_generation_round = 1 /\ cfg.limit_mm_per_prompt = 1
    /\ ~meta.is_validate =>
          /\ cfg.val_n = 1
          /\ cfg.val_max_generation_round = 1
          /\ cfg.val_limit_mm_per_prompt = 1
    /\ B * SamplesPerPrompt(cfg, meta.is_validate)
         * max_iterations_of(cfg, meta.is_validate) <= MaxWork
    /\ max_image_num_of(cfg, meta.is_validate)
          <= max_iterations_of(cfg, meta.is_validate)
    /\ (~meta.do_sample \/ position_dim = 2) =>
          B = 1 /\ max_iterations_of(cfg, meta.is_validate) = 1

\* no estimator is called during generate_sequences
NoEstimate == [pc |-> "off"]
NoLoss == [pc |-> "off"]
NoController == [pc |-> "off"]

Init ==
    /\ config \in Configs
    /\ \E B \in 1..MaxPrompts, meta \in MetaInfos, position_dim \in {2, 3} :
          /\ Explored(config, meta, B, position_dim)
          /\ prompts = [ meta_info       |-> meta,
                         raw_prompt_ids  |-> [b \in 1..B |-> <<"prompt", b>>],
                         multi_modal_data |-> [b \in 1..B |-> <<"prompt", b>>],
                         input_ids       |-> [b \in 1..B |-> PaddedPromptIds(b)],
                         attention_mask  |-> [b \in 1..B |-> PaddedPromptMask(b)],
                         position_dim    |-> position_dim ]
          /\ tokHeap = [a \in {<<"prompt", b>> : b \in 1..B} |->
                          Tag(RawPromptIds(a[2]), "prompt")]
          /\ imgHeap = [a \in {<<"prompt", b>> : b \in 1..B} |->
                          << DownscaledImage, ImagePath >>]
    /\ req_list = <<>>
    /\ task = <<>>
    /\ phase = "init"
    /\ batch = EmptyBatch
    /\ adv = NoEstimate
    /\ loss = NoLoss
    /\ kl_ctrl = NoController

----------------------------------------------------------------------------
(* generate_sequences *)

\* AsyncRolloutRequest(...) of lines 398-421, and the locals its task starts with
NewRequest(b, idx, original_image, image_token_num) ==
    [ batch_data_id |-> b - 1, rollout_offset |-> idx,
      raw_prompt_id |-> prompts.raw_prompt_ids[b],
      multi_modal_data |-> prompts.multi_modal_data[b],
      image_size_used |-> ImageSize(DownscaledImage),
      original_image |-> original_image,
      image_token_num |-> image_token_num ]

FreshLocals(req) ==
    [ pc |-> "start",
      batch_data_id |-> req.batch_data_id, rollout_offset |-> req.rollout_offset,
      prompt_token_ids |-> req.raw_prompt_id,     \* address, vllm_input
      multi_modal_data |-> req.multi_modal_data,  \* address, vllm_input
      raw_prompt_id |-> req.raw_prompt_id,        \* address, _req
      prefix_length |-> 0, context_length |-> 0,
      observations_list |-> <<>>, image_size_used_list |-> <<>>,
      multi_turn_response_mask |-> <<>>,
      max_iterations |-> 0, max_image_num |-> 0,
      current_iteration |-> 0, exceed |-> FALSE, void |-> FALSE,
      decoded_resp_ |-> <<>>, finish_reason |-> "none",
      old_prompt_token_ids |-> <<>>,
      new_context_length |-> 0, tool_outputs |-> "none",
      all_response_ids |-> <<>>, all_response_masks |-> <<>>, round_num |-> 0,
      engine_calls |-> 0, tool_calls |-> 0, left_by |-> "none" ]

\* _preprocess_prompt_to_async_rollout_requests(prompts, n), then the
\* creation of the tasks handed to asyncio.gather
Preprocess ==
    /\ phase = "init"
    /\ LET n == SamplesPerPrompt(config, prompts.meta_info.is_validate)
           B == Len(prompts.raw_prompt_ids)
           reqs == [r \in 1..(B * n) |->
                      LET b == ((r - 1) \div n) + 1
                          images == imgHeap[prompts.multi_modal_data[b]]
                      IN  NewRequest(b, (r - 1) % n, load_image(Last(images)),
                                     calculate_image_token_num(images[1]))]
       IN  /\ imgHeap' = [a \in DOMAIN imgHeap |-> Front(imgHeap[a])]  \* pop(-1)
           /\ req_list' = reqs
           /\ task' = [r \in DOMAIN reqs |-> FreshLocals(reqs[r])]
    /\ phase' = "rolling"
    /\ UNCHANGED <<config, prompts, tokHeap, batch, adv, loss, kl_ctrl>>

\* lines 586-660: the deep copy of the request and the set-up of the locals
Start(r) ==
    /\ phase \in {"rolling", "error"}
    /\ task[r].pc = "start"
    /\ LET req == req_list[r]
           a   == deepcopy(req, r)
           toks == tokHeap[req.raw_prompt_id]
           max_iterations ==
               max_iterations_of(config, prompts.meta_info.is_validate)
       IN  /\ tokHeap' = (a :> toks) @@ tokHeap
           /\ imgHeap' = (a :> imgHeap[req.multi_modal_data]) @@ imgHeap
           /\ LET t == [task[r] EXCEPT
                    !.prompt_token_ids = a, !.multi_modal_data = a,
                    !.raw_prompt_id = a,
                    !.prefix_length = Len(toks),
                    !.context_length = Len(toks) + req.image_token_num - 1,
                    !.observations_list = << req.original_image >>,
                    !.image_size_used_list = << req.image_size_used >>,
                    !.multi_turn_response_mask = << Repeat(0, Len(toks)) >>,
                    !.max_iterations = max_iterations,
                    !.max_image_num =
                        max_image_num_of(config, prompts.meta_info.is_validate)]
              IN task' = [task EXCEPT ![r] =
                    IF LoopContinues(0, max_iterations)
                    THEN [t EXCEPT !.pc = "gen"]
                    ELSE Finish([t EXCEPT !.left_by = "guard"],
                                toks, imgHeap[req.multi_modal_data])]
    /\ UNCHANGED <<config, prompts, req_list, phase, batch, adv, loss, kl_ctrl>>

\* lines 663-709 and 726-731: one answer of the engine, up to the next await
Generate(r) ==
    /\ phase \in {"rolling", "error"}
    /\ task[r].pc = "gen"
    /\ \E out \in EngineOutputs :
         LET t         == task[r]
             response_ == filtered_token_ids(out.token_ids)
             toks      == tokHeap[t.prompt_token_ids] \o Tag(response_, "assistant")
             images    == imgHeap[t.multi_modal_data]
             text      == decode(response_)
             context_length == t.context_length + Len(response_)
             u == [t EXCEPT
                     !.multi_turn_response_mask = Append(@, AssistantMask(response_)),
                     !.context_length = context_length,
                     !.decoded_resp_ = text,
                     !.finish_reason = out.finish_reason,
                     !.engine_calls = @ + 1]
         IN  /\ tokHeap' = [tokHeap EXCEPT ![t.prompt_token_ids] = toks]
             /\ task' = [task EXCEPT ![r] =
                  IF tool_call_contents(text) # {}
                  THEN IF BudgetExceeded(images, t.max_image_num,
                                         t.current_iteration, t.max_iterations)
                       THEN Finish([u EXCEPT !.exceed = TRUE, !.left_by = "break"],
                                   toks, images)
                       ELSE IF ContextExceeded(context_length,
                                               config.max_total_response_length)
                       THEN Finish([u EXCEPT !.exceed = TRUE, !.left_by = "break"],
                                   toks, images)
                       ELSE [u EXCEPT !.old_prompt_token_ids = SavedBuffer(toks),
                                      !.pc = "tool"]
                  ELSE Finish([u EXCEPT
                                 !.void = IsVoid(out.finish_reason, text),
                                 !.left_by = "break"], toks, images)]
    /\ UNCHANGED <<config, prompts, imgHeap, req_list, phase, batch, adv, loss, kl_ctrl>>

\* line 713: process_tool_call in the worker pool
ToolCall(r) ==
    /\ phase \in {"rolling", "error"}
    /\ task[r].pc = "tool"
    /\ \E prepared \in PrepareOutcomes, crop_tokens \in CropTokenNums :
         LET t == task[r]
             c == process_tool_call(tokHeap[t.prompt_token_ids],
                                    imgHeap[t.multi_modal_data], t.decoded_resp_,
                                    t.observations_list, t.image_size_used_list,
                                    t.multi_turn_response_mask,
                                    prepared, <<"crop", crop_tokens>>)
         IN  /\ tokHeap' = [tokHeap EXCEPT ![t.prompt_token_ids] = c.toks]
             /\ imgHeap' = [imgHeap EXCEPT ![t.multi_modal_data] = c.images]
             /\ task' = [task EXCEPT ![r] = [t EXCEPT
                    !.observations_list = c.observations,
                    !.image_size_used_list = c.sizes,
                    !.multi_turn_response_mask = c.masks,
                    !.new_context_length = c.new_context_length,
                    !.tool_outputs = c.tool_outputs,
                    !.tool_calls = @ + 1,
                    !.pc = "check"]]
    /\ UNCHANGED <<config, prompts, req_list, phase, batch, adv, loss, kl_ctrl>>

\* lines 714-733: back on the event loop after the tool call
AfterTool(r) ==
    /\ phase \in {"rolling", "error"}
    /\ task[r].pc = "check"
    /\ LET t == task[r]
           context_length == t.context_length + t.new_context_length
           u == [t EXCEPT !.context_length = context_length]
       IN  IF ContextExceeded(context_length, config.max_total_response_length)
           THEN LET b == RolledBack(t.old_prompt_token_ids,
                                    imgHeap[t.multi_modal_data],
                                    t.image_size_used_list, t.observations_list,
                                    t.multi_turn_response_mask, t.tool_outputs)
                    old == <<"old", r>>
                IN  /\ tokHeap' = (old :> b.toks) @@ tokHeap
                    /\ imgHeap' = [imgHeap EXCEPT ![t.multi_modal_data] = b.images]
                    /\ task' = [task EXCEPT ![r] =
                         Finish([u EXCEPT !.prompt_token_ids = old,
                                          !.image_size_used_list = b.sizes,
                                          !.observations_list = b.observations,
                                          !.multi_turn_response_mask = b.masks,
                                          !.exceed = TRUE, !.left_by = "break"],
                                b.toks, b.images)]
           ELSE /\ task' = [task EXCEPT ![r] =
                     LET v == [u EXCEPT !.current_iteration = @ + 1]
                     IN  IF LoopContinues(v.current_iteration, v.max_iterations)
                         THEN [v EXCEPT !.pc = "gen"]
                         ELSE Finish([v EXCEPT !.left_by = "guard"],
                                     tokHeap[t.prompt_token_ids],
                                     imgHeap[t.multi_modal_data])]
                /\ UNCHANGED <<tokHeap, imgHeap>>
    /\ UNCHANGED <<config, prompts, req_list, phase, batch, adv, loss, kl_ctrl>>

\* line 831: asyncio.gather re-raises the first exception of a task
GatherRaises ==
    /\ phase = "rolling"
    /\ \E r \in DOMAIN task : task[r].pc = "error"
    /\ phase' = "error"
    /\ UNCHANGED <<config, prompts, tokHeap, imgHeap, req_list, task, batch, adv, loss, kl_ctrl>>

\* lines 831-839: every task has returned; sort, then post_process
PostProcess ==
    /\ phase = "rolling"
    /\ \A r \in DOMAIN task : task[r].pc = "done"
    /\ \E classified \in IF prompts.meta_info.is_validate THEN {NotClassified}
                         ELSE ValidityOutcomes(Len(task)) :
         LET output_req_list == [r \in DOMAIN task |-> task[r]]   \* in req_list order
             sorted_output_req_list == sorted(output_req_list)
             result == post_process(prompts, config, sorted_output_req_list,
                                    imgHeap, classified)
         IN  /\ phase' = IF result.ok THEN "done" ELSE "error"
             /\ batch' = result.batch
    /\ UNCHANGED <<config, prompts, tokHeap, imgHeap, req_list, task, adv, loss, kl_ctrl>>

Next ==
    \/ Preprocess
    \/ \E r \in DOMAIN task : Start(r)
    \/ \E r \in DOMAIN task : Generate(r)
    \/ \E r \in DOMAIN task : ToolCall(r)
    \/ \E r \in DOMAIN task : AfterTool(r)
    \/ GatherRaises
    \/ PostProcess

Spec == Init /\ [][Next]_vars

----------------------------------------------------------------------------
(***************************************************************************)
(* The advantage estimators (verl/trainer/ppo/core_algos.py).              *)
(* A tensor of shape (bs, response_length) is a sequence of rows.  Numbers *)
(* are exact fractions <<numerator, denominator>> in lowest terms with a   *)
(* positive denominator.  A result that was divided by a quantity          *)
(* involving a square root or epsilon is kept as the pair of its numerator *)
(* and a description of its divisor, which is always positive and finite   *)
(* or +infinity, so the result is 0 exactly when its numerator is.         *)
(***************************************************************************)

Abs(x) == IF x < 0 THEN -x ELSE x

RECURSIVE GCD(_, _)
GCD(a, b) == IF b = 0 THEN a ELSE GCD(b, a % b)

Frac(numerator, denominator) ==
    LET g == GCD(Abs(numerator), Abs(denominator))
        s == IF denominator < 0 THEN -1 ELSE 1
    IN  << (s * numerator) \div g, (s * denominator) \div g >>

Num(k)     == << k, 1 >>
Zero       == Num(0)
One        == Num(1)
RAdd(x, y) == Frac(x[1] * y[2] + y[1] * x[2], x[2] * y[2])
RSub(x, y) == Frac(x[1] * y[2] - y[1] * x[2], x[2] * y[2])
RMul(x, y) == Frac(x[1] * y[1], x[2] * y[2])
RDiv(x, y) == Frac(x[1] * y[2], x[2] * y[1])

RECURSIVE RSum(_)
RSum(xs) == IF xs = <<>> THEN Zero ELSE RAdd(Head(xs), RSum(Tail(xs)))

Reversed(xs) == [k \in 1..Len(xs) |-> xs[Len(xs) + 1 - k]]    \* xs[::-1], flip

\* the divisors a result may carry
Undivided           == [kind |-> "1"]
StdPlusEps(sq)      == [kind |-> "std + epsilon", std_squared |-> sq]
ScaleOverStd(sc, sq) ==
    [kind |-> "scale / std + epsilon", std_squared |-> sq, scale |-> sc]
MaskedStd           == [kind |-> "rsqrt(masked_var + 1e-8)"]

Plain(x)           == [num |-> x, den |-> Undivided]
Times(cell, m)     == [cell EXCEPT !.num = RMul(cell.num, Num(m))]   \* cell * mask
PlainRows(tensor)  ==
    [i \in DOMAIN tensor |-> [t \in DOMAIN tensor[i] |-> Plain(tensor[i][t])]]

torch_mean(xs) == RDiv(RSum(xs), Num(Len(xs)))

\* torch.std(xs) ** 2: the unbiased estimator, with Bessel's correction
torch_std_squared_population(xs) ==
    LET m == torch_mean(xs)
    IN  RDiv(RSum([k \in DOMAIN xs |-> RMul(RSub(xs[k], m), RSub(xs[k], m))]),
             Num(Len(xs)))

torch_std_squared(xs) ==
    LET m == torch_mean(xs)
    IN  RDiv(RSum([k \in DOMAIN xs |-> RMul(RSub(xs[k], m), RSub(xs[k], m))]),
             Num(Len(xs) - 1))

\* id2score[idx]: the scores of the rows whose index is idx, in row order
RECURSIVE id2score(_, _, _)
id2score(scores, index, idx) ==
    IF scores = <<>> THEN <<>>
    ELSE (IF Head(index) = idx THEN << Head(scores) >> ELSE <<>>)
         \o id2score(Tail(scores), Tail(index), idx)

(* verl_F.masked_whiten(values, mask): (values - masked_mean) * rsqrt(var). *)
masked_mean(values, mask) ==
    LET cells == Concat([i \in DOMAIN values |->
                     [t \in DOMAIN values[i] |-> RMul(values[i][t], Num(mask[i][t]))]])
        ones  == Concat([i \in DOMAIN mask |-> [t \in DOMAIN mask[i] |-> Num(mask[i][t])]])
    IN  RDiv(RSum(cells), RSum(ones))

masked_whiten(values, mask) ==
    LET mean == masked_mean(values, mask)
    IN  [i \in DOMAIN values |-> [t \in DOMAIN values[i] |->
            [num |-> RSub(values[i][t], mean), den |-> MaskedStd]]]

(* compute_gae_advantage_return *)

nextvalues_same_step(values_row, t, gen_len) == values_row[t]

nextvalues(values_row, t, gen_len) ==
    IF t < gen_len THEN values_row[t + 1] ELSE Zero

RECURSIVE gae_loop(_, _, _, _, _, _, _)
gae_loop(rewards_row, values_row, gamma, lam, t, lastgaelam, advantages_reversed) ==
    IF t = 0 THEN advantages_reversed
    ELSE LET delta == RSub(RAdd(rewards_row[t],
                                RMul(gamma, nextvalues(values_row, t, Len(rewards_row)))),
                           values_row[t])
             now   == RAdd(delta, RMul(RMul(gamma, lam), lastgaelam))
         IN  gae_loop(rewards_row, values_row, gamma, lam, t - 1, now,
                      Append(advantages_reversed, now))

compute_gae_advantage_return(token_level_rewards, values, eos_mask, gamma, lam) ==
    LET advantages == [i \in DOMAIN token_level_rewards |->
            Reversed(gae_loop(token_level_rewards[i], values[i], gamma, lam,
                              Len(token_level_rewards[i]), Zero, <<>>))]
        returns    == [i \in DOMAIN advantages |->
            [t \in DOMAIN advantages[i] |-> RAdd(advantages[i][t], values[i][t])]]
    IN  [ unwhitened |-> advantages,
          advantages |-> masked_whiten(advantages, eos_mask),
          returns    |-> PlainRows(returns) ]

(* compute_grpo_outcome_advantage *)

id2mean_of_self(group) == torch_mean(group)

id2mean(group) == IF Len(group) = 1 THEN Zero ELSE torch_mean(group)

id2std_squared_of_self(group) == torch_std_squared_population(group)

\* id2std[idx] ** 2
id2std_squared(group) == IF Len(group) = 1 THEN One ELSE torch_std_squared(group)

compute_grpo_outcome_advantage(token_level_rewards, eos_mask, index, norm_adv_by_std_in_grpo, norm_by_importance, scale) ==
    LET bsz    == Len(token_level_rewards)
        scores == [i \in 1..bsz |-> RSum(token_level_rewards[i])]
        group(i) == id2score(scores, index, index[i])
        normalised == [i \in 1..bsz |->
            [ num |-> RSub(scores[i], id2mean(group(i))),
              den |-> IF norm_adv_by_std_in_grpo
                          THEN StdPlusEps(id2std_squared(group(i)))
                      ELSE IF norm_by_importance = "v1"
                          THEN ScaleOverStd(scale, id2std_squared(group(i)))
                      ELSE Undivided ]]
        tiled == [i \in 1..bsz |-> [t \in DOMAIN eos_mask[i] |->
                     Times(normalised[i], eos_mask[i][t])]]
    IN  [ scores |-> normalised, advantages |-> tiled, returns |-> tiled ]

(* compute_rloo_outcome_advantage *)

rloo_id2mean(group) == IF Len(group) = 1 THEN Zero ELSE torch_mean(group)

rloo_score_zero_alone(score, mean, response_num) ==
    IF response_num > 1
    THEN RSub(RDiv(RMul(score, Num(response_num)), Num(response_num - 1)),
              RDiv(RMul(mean, Num(response_num)), Num(response_num - 1)))
    ELSE Zero

rloo_score_mean_unscaled(score, mean, response_num) ==
    IF response_num > 1
    THEN RSub(RDiv(RMul(score, Num(response_num)), Num(response_num - 1)), mean)
    ELSE score

rloo_score(score, mean, response_num) ==
    IF response_num > 1
    THEN RSub(RDiv(RMul(score, Num(response_num)), Num(response_num - 1)),
              RDiv(RMul(mean, Num(response_num)), Num(response_num - 1)))
    ELSE score

compute_rloo_outcome_advantage(token_level_rewards, eos_mask, index) ==
    LET bsz    == Len(token_level_rewards)
        scores == [i \in 1..bsz |-> RSum(token_level_rewards[i])]
        group(i) == id2score(scores, index, index[i])
        left_out == [i \in 1..bsz |->
            Plain(rloo_score(scores[i], rloo_id2mean(group(i)), Len(group(i))))]
        tiled == [i \in 1..bsz |-> [t \in DOMAIN eos_mask[i] |->
                     Times(left_out[i], eos_mask[i][t])]]
    IN  [ scores |-> left_out, advantages |-> tiled, returns |-> tiled ]

(* compute_reinforce_plus_plus_outcome_advantage *)

RECURSIVE reinforce_loop(_, _, _, _, _, _)
reinforce_loop(rewards_row, mask_row, gamma, t, running_return, returns_row) ==
    IF t = 0 THEN returns_row
    ELSE LET now == RAdd(rewards_row[t], RMul(gamma, running_return))
         IN  reinforce_loop(rewards_row, mask_row, gamma, t - 1,
                            RMul(now, Num(mask_row[t])),
                            [returns_row EXCEPT ![t] = now])

compute_reinforce_plus_plus_outcome_advantage(token_level_rewards, eos_mask, gamma) ==
    LET returns == [i \in DOMAIN token_level_rewards |->
            reinforce_loop(token_level_rewards[i], eos_mask[i], gamma,
                           Len(token_level_rewards[i]), Zero,
                           [t \in DOMAIN token_level_rewards[i] |-> Zero])]
        whitened == masked_whiten(returns, eos_mask)
    IN  [ advantages |-> [i \in DOMAIN whitened |-> [t \in DOMAIN whitened[i] |->
                              Times(whitened[i][t], eos_mask[i][t])]],
          returns    |-> PlainRows(returns) ]

(* compute_remax_outcome_advantage *)

RECURSIVE cumsum(_)
cumsum(xs) ==
    IF xs = <<>> THEN <<>>
    ELSE LET before == cumsum(Front(xs))
         IN  Append(before, RAdd(IF before = <<>> THEN Zero ELSE Last(before), Last(xs)))

compute_remax_outcome_advantage(token_level_rewards, reward_baselines, eos_mask) ==
    LET returns == [i \in DOMAIN token_level_rewards |->
            Reversed(cumsum(Reversed(
                [t \in DOMAIN token_level_rewards[i] |->
                    RMul(token_level_rewards[i][t], Num(eos_mask[i][t]))])))]
        advantages == [i \in DOMAIN returns |-> [t \in DOMAIN returns[i] |->
            RSub(returns[i][t], RMul(reward_baselines[i], Num(eos_mask[i][t])))]]
    IN  [ advantages |-> PlainRows(advantages), returns |-> PlainRows(returns) ]

(* The inputs of one call *)

Shapes == { shape \in (1..MaxBatch) \X (1..MaxLen) : shape[1] * shape[2] <= MaxCells }

Tensors(shape, cells) == [1..shape[1] -> [1..shape[2] -> cells]]

EosMasks(shape) == Tensors(shape, {0, 1})

\* the masks masked_whiten accepts: some position is kept
KeepingMasks(shape) ==
    { mask \in EosMasks(shape) : \E i \in DOMAIN mask : \E t \in DOMAIN mask[i] : mask[i][t] = 1 }

\* outcome supervision: one scalar reward on one token of a response
ScoreValues == { Num(1), Num(3) }
OutcomeRows(len) ==
    { [t \in 1..len |-> Zero] }
    \cup { [t \in 1..len |-> IF t = at THEN score ELSE Zero] :
              at \in 1..len, score \in ScoreValues }
OutcomeRewards(shape) == [1..shape[1] -> OutcomeRows(shape[2])]

DenseRewards(shape) == Tensors(shape, {Zero, One})
Discounts == { Frac(1, 2), One }
Uids      == { "a", "b" }

(* One call of each estimator, on inputs of every shape *)

GaeCall ==
    /\ adv.pc = "ready"
    /\ \E shape \in Shapes :
         \E token_level_rewards \in DenseRewards(shape), values \in DenseRewards(shape),
            eos_mask \in KeepingMasks(shape), gamma \in Discounts, lam \in Discounts :
            adv' = [ pc |-> "done", estimator |-> "gae",
                     token_level_rewards |-> token_level_rewards, values |-> values,
                     eos_mask |-> eos_mask, gamma |-> gamma, lam |-> lam,
                     out |-> compute_gae_advantage_return(
                                 token_level_rewards, values, eos_mask, gamma, lam) ]
    /\ UNCHANGED <<config, prompts, tokHeap, imgHeap, req_list, task, phase, batch, loss, kl_ctrl>>

GrpoCall ==
    /\ adv.pc = "ready"
    /\ \E shape \in Shapes :
         \E token_level_rewards \in OutcomeRewards(shape), eos_mask \in EosMasks(shape),
            index \in [1..shape[1] -> Uids], norm_adv_by_std_in_grpo \in BOOLEAN,
            norm_by_importance \in {"v1", "none"} :
            /\ norm_adv_by_std_in_grpo => norm_by_importance = "v1"
            /\ adv' = [ pc |-> "done", estimator |-> "grpo",
                        token_level_rewards |-> token_level_rewards,
                        eos_mask |-> eos_mask, index |-> index,
                        norm_adv_by_std_in_grpo |-> norm_adv_by_std_in_grpo,
                        norm_by_importance |-> norm_by_importance,
                        scale |-> Frac(1, 4),
                        out |-> compute_grpo_outcome_advantage(
                                    token_level_rewards, eos_mask, index,
                                    norm_adv_by_std_in_grpo, norm_by_importance,
                                    Frac(1, 4)) ]
    /\ UNCHANGED <<config, prompts, tokHeap, imgHeap, req_list, task, phase, batch, loss, kl_ctrl>>

RlooCall ==
    /\ adv.pc = "ready"
    /\ \E shape \in Shapes :
         \E token_level_rewards \in OutcomeRewards(shape), eos_mask \in EosMasks(shape),
            index \in [1..shape[1] -> Uids] :
            adv' = [ pc |-> "done", estimator |-> "rloo",
                     token_level_rewards |-> token_level_rewards,
                     eos_mask |-> eos_mask, index |-> index,
                     out |-> compute_rloo_outcome_advantage(
                                 token_level_rewards, eos_mask, index) ]
    /\ UNCHANGED <<config, prompts, tokHeap, imgHeap, req_list, task, phase, batch, loss, kl_ctrl>>

ReinforcePlusPlusCall ==
    /\ adv.pc = "ready"
    /\ \E shape \in Shapes :
         \E token_level_rewards \in DenseRewards(shape),
            eos_mask \in KeepingMasks(shape), gamma \in Discounts :
            adv' = [ pc |-> "done", estimator |-> "reinforce_plus_plus",
                     token_level_rewards |-> token_level_rewards,
                     eos_mask |-> eos_mask, gamma |-> gamma,
                     out |-> compute_reinforce_plus_plus_outcome_advantage(
                                 token_level_rewards, eos_mask, gamma) ]
    /\ UNCHANGED <<config, prompts, tokHeap, imgHeap, req_list, task, phase, batch, loss, kl_ctrl>>

RemaxCall ==
    /\ adv.pc = "ready"
    /\ \E shape \in Shapes :
         \E token_level_rewards \in OutcomeRewards(shape),
            reward_baselines \in [1..shape[1] -> {Zero, One}],
            eos_mask \in EosMasks(shape) :
            adv' = [ pc |-> "done", estimator |-> "remax",
                     token_level_rewards |-> token_level_rewards,
                     reward_baselines |-> reward_baselines, eos_mask |-> eos_mask,
                     out |-> compute_remax_outcome_advantage(
                                 token_level_rewards, reward_baselines, eos_mask) ]
    /\ UNCHANGED <<config, prompts, tokHeap, imgHeap, req_list, task, phase, batch, loss, kl_ctrl>>

\* the trainer's side: no rollout is in progress, an estimator is about to be called
EstimatorInit ==
    /\ adv = [pc |-> "ready"]
    /\ loss = NoLoss
    /\ kl_ctrl = NoController
    /\ config = <<>>
    /\ prompts = <<>>
    /\ tokHeap = <<>>
    /\ imgHeap = <<>>
    /\ req_list = <<>>
    /\ task = <<>>
    /\ phase = "off"
    /\ batch = EmptyBatch

EstimatorNext ==
    \/ GaeCall
    \/ GrpoCall
    \/ RlooCall
    \/ ReinforcePlusPlusCall
    \/ RemaxCall

EstimatorSpec == EstimatorInit /\ [][EstimatorNext]_vars

----------------------------------------------------------------------------
(***************************************************************************)
(* The loss functions of core_algos.py.  A log-probability is kept as the  *)
(* probability it is the logarithm of, an exact fraction in (0, 1], so     *)
(* that exp(log_prob - old_log_prob) is the quotient of two fractions.     *)
(***************************************************************************)

RLess(x, y) == x[1] * y[2] < y[1] * x[2]
RMax(x, y)  == IF RLess(x, y) THEN y ELSE x                    \* torch.max
RMin(x, y)  == IF RLess(y, x) THEN y ELSE x
RNeg(x)     == << -x[1], x[2] >>

RECURSIVE RProd(_)
RProd(xs) == IF xs = <<>> THEN One ELSE RMul(Head(xs), RProd(Tail(xs)))

RECURSIVE RPow(_, _)
RPow(x, k) == IF k = 0 THEN One ELSE RMul(x, RPow(x, k - 1))

\* torch.clamp(x, min, max) = min(max(x, min), max)
torch_clamp(x, lowest, highest) == RMin(RMax(x, lowest), highest)

\* torch.sum(loss_mat * loss_mask, dim=-1), one row
masked_row_sum(values_row, mask_row) ==
    RSum([t \in DOMAIN values_row |-> RMul(values_row[t], Num(mask_row[t]))])

mask_row_sum(mask_row) == RSum([t \in DOMAIN mask_row |-> Num(mask_row[t])])

(* agg_loss *)

token_sum_norm_by_rows(row_sum, loss_mask) == RDiv(row_sum, Num(Len(loss_mask)))

\* torch.sum(loss_mat * loss_mask, dim=-1) / loss_mask.shape[-1], one row
token_sum_norm(row_sum, loss_mask) == RDiv(row_sum, Num(Len(loss_mask[1])))

agg_loss(loss_mat, loss_mask, loss_agg_mode, scale) ==
    LET seq_sums == [i \in DOMAIN loss_mat |-> masked_row_sum(loss_mat[i], loss_mask[i])]
    IN  CASE loss_agg_mode = "token-mean" ->
                [raised |-> "none", loss |-> masked_mean(loss_mat, loss_mask)]
          [] loss_agg_mode = "seq-mean-token-sum" ->
                [raised |-> "none", loss |-> torch_mean(seq_sums)]
          [] loss_agg_mode = "seq-mean-token-mean" ->
                \* the mean over the rows of sum / (count + eps), eps left symbolic
                [raised |-> "none",
                 loss |-> [mean_of |-> [i \in DOMAIN loss_mat |->
                              [sum |-> seq_sums[i],
                               over_eps_plus |-> mask_row_sum(loss_mask[i])]]]]
          [] loss_agg_mode = "seq-mean-token-sum-norm" ->
                [raised |-> "none",
                 loss |-> torch_mean([i \in DOMAIN loss_mat |->
                              token_sum_norm(seq_sums[i], loss_mask)])]
          [] loss_agg_mode = "seq-mean-token-sum-norm-scaled" ->
                [raised |-> "none",
                 loss |-> torch_mean([i \in DOMAIN loss_mat |->
                              RMul(token_sum_norm(seq_sums[i], loss_mask), scale)])]
          [] OTHER ->
                [raised |-> "ValueError", loss |-> "none"]

LossAggModes ==
    { "token-mean", "seq-mean-token-sum", "seq-mean-token-mean",
      "seq-mean-token-sum-norm", "seq-mean-token-sum-norm-scaled" }

LossValues == { Num(-1), Zero, Num(2) }

AggLossCall ==
    /\ loss.pc = "ready"
    /\ \E shape \in Shapes :
         \E loss_mat \in Tensors(shape, LossValues), loss_mask \in KeepingMasks(shape),
            loss_agg_mode \in LossAggModes \cup {"sum"}, scale \in {One, Frac(1, 4)} :
            /\ (scale # One) => loss_agg_mode = "seq-mean-token-sum-norm-scaled"
            /\ loss' = [ pc |-> "done", function |-> "agg_loss",
                         loss_mat |-> loss_mat, loss_mask |-> loss_mask,
                         loss_agg_mode |-> loss_agg_mode, scale |-> scale,
                         out |-> agg_loss(loss_mat, loss_mask, loss_agg_mode, scale) ]
    /\ UNCHANGED <<config, prompts, tokHeap, imgHeap, req_list, task, phase, batch, adv, kl_ctrl>>

(* compute_policy_loss *)

\* cliprange_low / cliprange_high fall back to cliprange when None
None == << >>

fallback(given, cliprange) == IF given = None THEN cliprange ELSE given

clamp_low_as_given(cliprange_low) == cliprange_low

\* the lower bound of the clamp, 1.0 - cliprange_low
clamp_low(cliprange_low) == RSub(One, cliprange_low)

\* masked_mean(-(log_prob - old_log_prob), mask): the mean of logarithms is the
\* logarithm of the product of old/new over the kept positions, over their count
mean_log_old_over_new(old_log_prob, log_prob, mask) ==
    [ log_of |-> RProd(Concat([i \in DOMAIN mask |-> [t \in DOMAIN mask[i] |->
                     IF mask[i][t] = 1 THEN RDiv(old_log_prob[i][t], log_prob[i][t])
                     ELSE One]])),
      over   |-> RSum([i \in DOMAIN mask |-> mask_row_sum(mask[i])]) ]

compute_policy_loss(old_log_prob, log_prob, advantages, eos_mask, cliprange, cliprange_low, cliprange_high, loss_agg_mode, scale) ==
    LET rows  == DOMAIN log_prob
        ratio == [i \in rows |-> [t \in DOMAIN log_prob[i] |->
                     RDiv(log_prob[i][t], old_log_prob[i][t])]]
        pg_losses == [i \in rows |-> [t \in DOMAIN ratio[i] |->
                     RMul(RNeg(advantages[i][t]), ratio[i][t])]]
        low   == fallback(cliprange_low, cliprange)
        high  == fallback(cliprange_high, cliprange)
        pg_losses2 == [i \in rows |-> [t \in DOMAIN ratio[i] |->
                     RMul(RNeg(advantages[i][t]),
                          torch_clamp(ratio[i][t], clamp_low(low), RAdd(One, high)))]]
        worst == [i \in rows |-> [t \in DOMAIN ratio[i] |->
                     RMax(pg_losses[i][t], pg_losses2[i][t])]]
        gt    == [i \in rows |-> [t \in DOMAIN ratio[i] |->
                     IF RLess(pg_losses[i][t], pg_losses2[i][t]) THEN One ELSE Zero]]
        aggregated == agg_loss(worst, eos_mask, loss_agg_mode, scale)
    IN  IF low = None \/ high = None
        THEN [ raised |-> "TypeError" ]
        ELSE IF aggregated.raised # "none"
        THEN [ raised |-> aggregated.raised ]
        ELSE [ raised      |-> "none",
               pg_loss     |-> aggregated.loss,
               pg_clipfrac |-> masked_mean(gt, eos_mask),
               ppo_kl      |-> mean_log_old_over_new(old_log_prob, log_prob, eos_mask) ]

ClipRanges == { Zero, Frac(1, 5), Frac(1, 2), One }
Probabilities == { Frac(1, 4), Frac(1, 2), One }
OldProbabilities == { Frac(1, 2), One }
Advantages == { Num(-1), One }

LossShapes == { shape \in (1..MaxBatch) \X (1..MaxLen) : shape[1] * shape[2] <= MaxLossCells }

\* one call with each of two clip ranges, on the same tensors
PolicyLossCall ==
    /\ loss.pc = "ready"
    /\ \E shape \in LossShapes :
         \E old_log_prob \in Tensors(shape, OldProbabilities),
            log_prob \in Tensors(shape, Probabilities),
            advantages \in Tensors(shape, Advantages),
            eos_mask \in KeepingMasks(shape),
            cliprange \in ClipRanges \cup {None}, narrower \in ClipRanges,
            cliprange_high \in {None, One} :
            /\ cliprange # None => ~RLess(cliprange, narrower)
            /\ (cliprange = None \/ cliprange_high # None) => narrower = Zero
            /\ loss' = [ pc |-> "done", function |-> "compute_policy_loss",
                         old_log_prob |-> old_log_prob, log_prob |-> log_prob,
                         advantages |-> advantages, eos_mask |-> eos_mask,
                         cliprange |-> cliprange, narrower |-> narrower,
                         cliprange_low |-> None, cliprange_high |-> cliprange_high,
                         out |-> compute_policy_loss(old_log_prob, log_prob, advantages,
                                     eos_mask, cliprange, None, cliprange_high,
                                     "token-mean", One),
                         out_narrower |-> compute_policy_loss(old_log_prob, log_prob,
                                     advantages, eos_mask, narrower, None,
                                     cliprange_high, "token-mean", One) ]
    /\ UNCHANGED <<config, prompts, tokHeap, imgHeap, req_list, task, phase, batch, adv, kl_ctrl>>

(* compute_policy_loss_gspo *)

\* exp(log(base) / (length + eps)): the sequence-level importance ratio of a row
\* whose kept positions have new/old probabilities multiplying to `base`
SeqRatio(base, length) == [exp_log_of |-> base, over_eps_plus |-> length]

seq_ratio_of_row(old_row, new_row, mask_row) ==
    SeqRatio(RProd([t \in DOMAIN mask_row |->
                 IF mask_row[t] = 1 THEN RDiv(new_row[t], old_row[t]) ELSE One]),
             Len(SelectSeq(mask_row, LAMBDA m : m = 1)))

\* base^(1/(n+eps)) > bound for a bound >= 1, and < bound for a bound in [0, 1]
SeqRatioAbove(r, bound) == RLess(RPow(bound, r.over_eps_plus), r.exp_log_of)
SeqRatioBelow(r, bound) == RLess(r.exp_log_of, RPow(bound, r.over_eps_plus))

\* torch.clamp of a sequence ratio: the ratio itself or the bound it is cut to
seq_ratio_clamp(r, lowest, highest) ==
    IF SeqRatioBelow(r, lowest) THEN [cut_to |-> lowest]
    ELSE IF SeqRatioAbove(r, highest) THEN [cut_to |-> highest]
    ELSE r

\* advantages * seq_ratio pairs column j of a (bs, T) tensor with entry j of a
\* (bs,) tensor: torch aligns the shapes from the right
BroadcastsWithVector(shape) == shape[1] = shape[2] \/ shape[1] = 1 \/ shape[2] = 1

\* which entry of the (bs,) tensor meets the element (i, j) of the product
vector_entry(shape, i, j) == IF shape[1] = 1 THEN 1 ELSE j

compute_policy_loss_gspo(old_log_prob, log_prob, advantages, response_mask, loss_agg_mode, cliprange, cliprange_low, cliprange_high) ==
    LET shape == << Len(log_prob), Len(log_prob[1]) >>
        low   == fallback(cliprange_low, cliprange)
        high  == fallback(cliprange_high, cliprange)
        seq_ratio == [i \in DOMAIN log_prob |->
                        seq_ratio_of_row(old_log_prob[i], log_prob[i], response_mask[i])]
        width == IF shape[2] = 1 THEN shape[1] ELSE shape[2]
        column(j) == IF shape[2] = 1 THEN 1 ELSE j
        element(i, j) ==
            LET a       == advantages[i][column(j)]
                r       == seq_ratio[vector_entry(shape, i, j)]
                clamped == seq_ratio_clamp(r, RSub(One, low), RAdd(One, high))
                cut     == clamped # r
                \* -a * clamped > -a * r
                gt      == cut /\ IF SeqRatioAbove(r, RAdd(One, high))
                                  THEN RLess(Zero, a) ELSE RLess(a, Zero)
            IN  [ pg_losses1 |-> [minus |-> a, times |-> r],
                  pg_losses2 |-> [minus |-> a, times |-> clamped],
                  pg_losses  |-> [minus |-> a, times |-> IF gt THEN clamped ELSE r],
                  gt         |-> gt ]
        product == [i \in 1..shape[1] |-> [j \in 1..width |-> element(i, j)]]
    IN  IF ~BroadcastsWithVector(shape) THEN [ raised |-> "RuntimeError" ]
        ELSE IF low = None \/ high = None THEN [ raised |-> "TypeError" ]
        ELSE IF loss_agg_mode \notin LossAggModes THEN [ raised |-> "ValueError" ]
        ELSE [ raised      |-> "none",
               seq_ratio   |-> seq_ratio,
               pg_losses   |-> product,
               pg_loss     |-> [agg_loss |-> loss_agg_mode, loss_mask |-> response_mask],
               pg_clipfrac |-> [masked_mean_of |-> "gt", mask |-> response_mask],
               ppo_kl      |-> mean_log_old_over_new(old_log_prob, log_prob, response_mask) ]

GspoShapes == { shape \in (1..MaxBatch) \X (1..MaxLen) : shape[1] * shape[2] <= MaxGspoCells }

\* the advantages of an outcome estimator: one number per row, tiled
TiledAdvantages(shape) ==
    { [i \in 1..shape[1] |-> [t \in 1..shape[2] |-> per_row[i]]] :
          per_row \in [1..shape[1] -> Advantages] }

\* old log-probabilities, the same at every position of a row
TiledOldProbabilities(shape) ==
    { [i \in 1..shape[1] |-> [t \in 1..shape[2] |-> per_row[i]]] :
          per_row \in [1..shape[1] -> OldProbabilities] }

GspoCall ==
    /\ loss.pc = "ready"
    /\ \E shape \in GspoShapes :
         \E old_log_prob \in TiledOldProbabilities(shape),
            log_prob \in Tensors(shape, {Frac(1, 4), One}),
            advantages \in TiledAdvantages(shape),
            response_mask \in EosMasks(shape),
            cliprange \in {Frac(1, 5), None} :
            /\ cliprange = None =>
                  \A i \in DOMAIN response_mask : \A t \in DOMAIN response_mask[i] :
                      response_mask[i][t] = 1
            /\ loss' = [ pc |-> "done", function |-> "compute_policy_loss_gspo",
                         old_log_prob |-> old_log_prob, log_prob |-> log_prob,
                         advantages |-> advantages, response_mask |-> response_mask,
                         cliprange |-> cliprange,
                         out |-> compute_policy_loss_gspo(old_log_prob, log_prob,
                                     advantages, response_mask, "token-mean",
                                     cliprange, None, None) ]
    /\ UNCHANGED <<config, prompts, tokHeap, imgHeap, req_list, task, phase, batch, adv, kl_ctrl>>

(* kl_penalty.  Here a log-probability is a number of natural-log units:   *)
(* 0, a negative integer, or Lowest, which stands for the most negative    *)
(* finite float.  A result is an interval << low, high >> of fractions     *)
(* that contains it (2^k <= e^k <= 3^k for k >= 0), or one of the floats a *)
(* computation on Lowest gives: Big (about 3.4e38), its negative, and Inf. *)

Lowest   == -1000000
Big      == << "big" >>
MinusBig == << "-big" >>
Inf      == << "inf" >>

\* a - b in floating point; the result is an integer, Lowest or -Lowest
float_sub(a, b) ==
    IF a = Lowest /\ b = Lowest THEN 0
    ELSE IF a = Lowest THEN Lowest
    ELSE IF b = Lowest THEN -Lowest
    ELSE a - b

RECURSIVE IntPow(_, _)
IntPow(base, k) == IF k = 0 THEN 1 ELSE base * IntPow(base, k - 1)

\* torch.exp: overflows to inf, underflows to 0
torch_exp(x) ==
    IF x = -Lowest THEN Inf
    ELSE IF x = Lowest THEN << Zero, Zero >>
    ELSE IF x >= 0 THEN << Num(IntPow(2, x)), Num(IntPow(3, x)) >>
    ELSE << Frac(1, IntPow(3, -x)), Frac(1, IntPow(2, -x)) >>

clamp_from_below(x, lowest, highest) ==
    IF Len(x) = 1 THEN (IF x = MinusBig THEN << lowest, lowest >> ELSE x)
    ELSE << RMax(x[1], lowest), RMax(x[2], lowest) >>

\* torch.clamp(x, min, max) of an interval or an extreme float
clamp_interval(x, lowest, highest) ==
    IF Len(x) = 1
    THEN (IF x = MinusBig THEN << lowest, lowest >> ELSE << highest, highest >>)
    ELSE << torch_clamp(x[1], lowest, highest), torch_clamp(x[2], lowest, highest) >>

\* ratio - kl - 1
low_var_kld(ratio, kl) ==
    IF ratio = Inf THEN Inf                           \* inf - big - 1
    ELSE IF kl = Lowest THEN Big                      \* 0 + big - 1
    ELSE << RSub(ratio[1], Num(kl + 1)), RSub(ratio[2], Num(kl + 1)) >>

kl_penalty_element(logprob, ref_logprob, kind) ==
    LET diff    == float_sub(logprob, ref_logprob)
        kl      == float_sub(ref_logprob, logprob)
        extreme == diff \in {Lowest, -Lowest}
    IN  CASE kind = "kl"  -> IF diff = Lowest THEN MinusBig
                             ELSE IF diff = -Lowest THEN Big
                             ELSE << Num(diff), Num(diff) >>
          [] kind = "abs" -> IF extreme THEN Big
                             ELSE << Num(Abs(diff)), Num(Abs(diff)) >>
          [] kind = "mse" -> IF extreme THEN Inf
                             ELSE << Frac(diff * diff, 2), Frac(diff * diff, 2) >>
          [] kind = "low_var_kl" ->
                clamp_interval(low_var_kld(torch_exp(kl), kl), Num(-10), Num(10))

kl_penalty(logprob, ref_logprob, kind) ==
    IF kind \in {"kl", "abs", "mse", "low_var_kl"}
    THEN [ raised |-> "none",
           kl |-> [i \in DOMAIN logprob |-> [t \in DOMAIN logprob[i] |->
                      kl_penalty_element(logprob[i][t], ref_logprob[i][t], kind)]] ]
    ELSE [ raised |-> "NotImplementedError" ]

LogProbs == { 0, -1, -3, -4, -12, Lowest }

KlPenaltyCall ==
    /\ loss.pc = "ready"
    /\ \E shape \in LossShapes :
         \E logprob \in Tensors(shape, LogProbs), ref_logprob \in Tensors(shape, LogProbs),
            kind \in {"kl", "abs", "mse", "low_var_kl", "full", "k3"} :
            loss' = [ pc |-> "done", function |-> "kl_penalty",
                      logprob |-> logprob, ref_logprob |-> ref_logprob,
                      kl_penalty |-> kind,
                      out |-> kl_penalty(logprob, ref_logprob, kind) ]
    /\ UNCHANGED <<config, prompts, tokHeap, imgHeap, req_list, task, phase, batch, adv, kl_ctrl>>

\* the trainer's side: a loss is about to be computed
LossInit ==
    /\ loss = [pc |-> "ready"]
    /\ adv = NoEstimate
    /\ kl_ctrl = NoController
    /\ config = <<>>
    /\ prompts = <<>>
    /\ tokHeap = <<>>
    /\ imgHeap = <<>>
    /\ req_list = <<>>
    /\ task = <<>>
    /\ phase = "off"
    /\ batch = EmptyBatch

LossNext ==
    \/ AggLossCall
    \/ PolicyLossCall
    \/ GspoCall
    \/ KlPenaltyCall

LossSpec == LossInit /\ [][LossNext]_vars

----------------------------------------------------------------------------
(* The KL controllers of core_algos.py *)

np_clip_off(x, lowest, highest) == x

\* np.clip(x, a_min, a_max)
np_clip(x, lowest, highest) == RMin(RMax(x, lowest), highest)

\* AdaptiveKLController.update: the factor self.value is multiplied by
adaptive_mult(target, horizon, current_kl, n_steps) ==
    LET proportional_error ==
            np_clip(RSub(RDiv(current_kl, target), One), Frac(-1, 5), Frac(1, 5))
    IN  RAdd(One, RDiv(RMul(proportional_error, Num(n_steps)), Num(horizon)))

\* config.kl_ctrl when the configuration has no such node
Missing == [present |-> FALSE, horizon |-> 0]
Present(horizon) == [present |-> TRUE, horizon |-> horizon]

KlConfigs ==
    { [ critic  |-> [kl_ctrl |-> [type |-> type, kl_coef |-> kl_coef,
                                  target_kl |-> target_kl, horizon |-> horizon]],
        kl_ctrl |-> top ] :
          type \in {"fixed", "adaptive", "linear"},
          kl_coef \in {Frac(1, 1000), One},
          target_kl \in {Frac(1, 10), One},
          horizon \in {-1, 0, 5, 10},
          top \in {Missing, Present(-1), Present(10)} }

get_kl_controller(cfg) ==
    LET own == cfg.critic.kl_ctrl
    IN  IF own.type = "fixed"
        THEN [ pc |-> "ready", class |-> "FixedKLController", value |-> own.kl_coef,
               config |-> cfg, updates |-> 0, last |-> << >> ]
        ELSE IF own.type = "adaptive"
        THEN IF cfg.kl_ctrl = Missing
             THEN [ pc |-> "raised", error |-> "AttributeError", config |-> cfg ]
             ELSE IF ~(cfg.kl_ctrl.horizon > 0)
             THEN [ pc |-> "raised", error |-> "AssertionError", config |-> cfg ]
             ELSE [ pc |-> "ready", class |-> "AdaptiveKLController",
                    value |-> own.kl_coef, target |-> own.target_kl,
                    horizon |-> own.horizon, config |-> cfg, updates |-> 0, last |-> << >> ]
        ELSE [ pc |-> "raised", error |-> "ValueError", config |-> cfg ]

GetKlController ==
    /\ kl_ctrl.pc = "configured"
    /\ kl_ctrl' = get_kl_controller(kl_ctrl.config)
    /\ UNCHANGED <<config, prompts, tokHeap, imgHeap, req_list, task, phase, batch, adv, loss>>

CurrentKls == { Zero, Frac(1, 20), Frac(9, 100), Frac(1, 10), One, Num(2) }
StepCounts == { 1, 4 }

AdaptiveUpdate ==
    /\ kl_ctrl.pc = "ready"
    /\ kl_ctrl.class = "AdaptiveKLController"
    /\ kl_ctrl.updates < MaxUpdates
    /\ \E current_kl \in CurrentKls, n_steps \in StepCounts :
          kl_ctrl' =
              IF kl_ctrl.horizon = 0
              THEN [ pc |-> "raised", error |-> "ZeroDivisionError",
                     config |-> kl_ctrl.config ]
              ELSE [ kl_ctrl EXCEPT
                       !.value = RMul(@, adaptive_mult(kl_ctrl.target, kl_ctrl.horizon,
                                                       current_kl, n_steps)),
                       !.updates = @ + 1,
                       !.last = [current_kl |-> current_kl, n_steps |-> n_steps] ]
    /\ UNCHANGED <<config, prompts, tokHeap, imgHeap, req_list, task, phase, batch, adv, loss>>

FixedUpdate ==
    /\ kl_ctrl.pc = "ready"
    /\ kl_ctrl.class = "FixedKLController"
    /\ kl_ctrl.updates < MaxUpdates
    /\ \E current_kl \in CurrentKls, n_steps \in StepCounts :
          kl_ctrl' = [ kl_ctrl EXCEPT
                         !.updates = @ + 1,
                         !.last = [current_kl |-> current_kl, n_steps |-> n_steps] ]
    /\ UNCHANGED <<config, prompts, tokHeap, imgHeap, req_list, task, phase, batch, adv, loss>>

KlInit ==
    /\ \E cfg \in KlConfigs : kl_ctrl = [pc |-> "configured", config |-> cfg]
    /\ adv = NoEstimate
    /\ loss = NoLoss
    /\ config = <<>>
    /\ prompts = <<>>
    /\ tokHeap = <<>>
    /\ imgHeap = <<>>
    /\ req_list = <<>>
    /\ task = <<>>
    /\ phase = "off"
    /\ batch = EmptyBatch

KlNext ==
    \/ GetKlController
    \/ AdaptiveUpdate
    \/ FixedUpdate

KlSpec == KlInit /\ [][KlNext]_vars

----------------------------------------------------------------------------
(* Vocabulary of the properties *)

Running(r)  == task[r].pc \in {"gen", "tool", "check"}
Ended(r)    == task[r].pc \in {"done", "error"}
Stepped(r)  == task'[r] # task[r]

Buffer(r)   == tokHeap[task[r].prompt_token_ids]
Images(r)   == imgHeap[task[r].multi_modal_data]
Masks(r)    == task[r].multi_turn_response_mask

\* a list with the tokens an observation turn left at its end removed
RECURSIVE WithoutTrailingObservation(_)
WithoutTrailingObservation(toks) ==
    IF toks # <<>> /\ Origin(Last(toks)) = "observation"
    THEN WithoutTrailingObservation(Front(toks)) ELSE toks

\* the text holds a <grounding> ... </grounding> block
HasGroundingBlock(text) ==
    \E i \in DOMAIN text : text[i] = "<grounding>"
        /\ \E j \in DOMAIN text : j > i /\ text[j] = "</grounding>"

\* the text ends with an <answer> ... </answer> block
EndsWithAnswerBlock(text) ==
    /\ text # <<>>
    /\ Last(text) = "</answer>"
    /\ \E i \in DOMAIN text : text[i] = "<answer>"

\* the arguments of the tool call of the text cannot be parsed
UnparsableToolCall(text) ==
    ~ \E i \in DOMAIN text :
          /\ i + 2 \in DOMAIN text
          /\ text[i] = "<grounding>" /\ text[i + 1] = "{bbox_ok}"
          /\ text[i + 2] = "</grounding>"

AllOnes(s)  == \A k \in DOMAIN s : s[k] = 1
AllZeros(s) == \A k \in DOMAIN s : s[k] = 0

----------------------------------------------------------------------------
\* C1: when a tool call has been processed and the context length then
\* reaches max_total_response_length - 2000, the request ends with
\* exceed = TRUE and its token buffer is again the buffer as it was before
\* the tool call was processed: everything up to and including the response
\* that called the tool, without the observation turn.
C1_RollbackRestoresBuffer ==
    [][\A r \in DOMAIN task :
         ( /\ task[r].pc = "check" /\ Stepped(r)
           /\ task[r].context_length + task[r].new_context_length
                 >= config.max_total_response_length - 2000 )
         => /\ Ended(r)' /\ task'[r].exceed /\ ~task'[r].void
            /\ Buffer(r)' = WithoutTrailingObservation(Buffer(r))
            /\ Len(Buffer(r)') < Len(Buffer(r))
            /\ Origin(Last(Buffer(r)')) = "assistant"]_vars

C1_Witness ==
    \E r \in DOMAIN task :
        /\ task[r].pc = "done" /\ task[r].exceed /\ task[r].tool_calls >= 1
        /\ task[r].prompt_token_ids = <<"old", r>>
        /\ task[r].tool_outputs = "image"

\* C2: a response without a tool call ends the request in that turn, void
\* exactly when the finish reason is LENGTH or the text does not end with an
\* answer block, and never exceeded.
C2_NoToolCallTerminates ==
    [][\A r \in DOMAIN task :
         ( /\ task[r].pc = "gen" /\ Stepped(r)
           /\ ~HasGroundingBlock(task'[r].decoded_resp_) )
         => /\ Ended(r)' /\ task'[r].left_by = "break"
            /\ task'[r].engine_calls = task[r].engine_calls + 1
            /\ task'[r].void <=> ( task'[r].finish_reason = "length"
                                   \/ ~EndsWithAnswerBlock(task'[r].decoded_resp_) )
            /\ ~task'[r].exceed]_vars

C2_Witness ==
    \E r, q \in DOMAIN task :
        /\ task[r].pc = "done" /\ ~HasGroundingBlock(task[r].decoded_resp_)
        /\ ~task[r].void /\ ~task[r].exceed
        /\ task[q].pc = "done" /\ ~HasGroundingBlock(task[q].decoded_resp_)
        /\ task[q].void /\ task[q].finish_reason = "length"
        /\ EndsWithAnswerBlock(task[q].decoded_resp_)

\* C3: a tool call made when the image limit is reached or on the last
\* allowed round ends the request with exceed = TRUE before the tool runs:
\* nothing but the response itself is appended.
C3_BudgetStopsBeforeTool ==
    [][\A r \in DOMAIN task :
         ( /\ task[r].pc = "gen" /\ Stepped(r)
           /\ HasGroundingBlock(task'[r].decoded_resp_)
           /\ \/ Len(Images(r)) >= task[r].max_image_num
              \/ task[r].current_iteration = task[r].max_iterations - 1 )
         => /\ Ended(r)' /\ task'[r].exceed
            /\ task'[r].tool_calls = task[r].tool_calls
            /\ Images(r)' = Images(r)
            /\ task'[r].image_size_used_list = task[r].image_size_used_list
            /\ task'[r].observations_list = task[r].observations_list
            /\ Len(Masks(r)') = Len(Masks(r)) + 1
            /\ AllOnes(Last(Masks(r)'))
            /\ Len(Buffer(r)') = Len(Buffer(r)) + Len(Last(Masks(r)'))
            /\ \A k \in (Len(Buffer(r)) + 1)..Len(Buffer(r)') :
                  Origin(Buffer(r)'[k]) = "assistant"]_vars

C3_Witness ==
    \E r \in DOMAIN task :
        /\ task[r].pc = "done" /\ task[r].exceed
        /\ HasGroundingBlock(task[r].decoded_resp_)
        /\ Len(Images(r)) >= task[r].max_image_num
        /\ task[r].current_iteration < task[r].max_iterations - 1
        /\ task[r].tool_calls = 1

\* C4: a tool call whose arguments cannot be parsed or prepared does not
\* abort the request: the tool step appends a textual error observation as a
\* user turn with mask 0 and no image, and, when the context budget allows,
\* the round counter goes up by one and the engine is called again.
C4_ParseFailureContinues ==
    [][\A r \in DOMAIN task :
         /\ ( /\ task[r].pc = "tool" /\ Stepped(r)
              /\ \/ UnparsableToolCall(task[r].decoded_resp_)
                 \/ task'[r].tool_outputs = "text" )
            => /\ task'[r].pc = "check"
               /\ task'[r].tool_outputs = "text"
               /\ Images(r)' = Images(r)
               /\ task'[r].image_size_used_list = task[r].image_size_used_list
               /\ Len(Buffer(r)') > Len(Buffer(r))
               /\ SubSeq(Buffer(r)', 1, Len(Buffer(r))) = Buffer(r)
               /\ \A k \in (Len(Buffer(r)) + 1)..Len(Buffer(r)') :
                     /\ Origin(Buffer(r)'[k]) = "observation"
                     /\ Id(Buffer(r)'[k]) # image_pad_token
               /\ Front(Masks(r)') = Masks(r)
               /\ AllZeros(Last(Masks(r)'))
               /\ Len(Last(Masks(r)')) = Len(Buffer(r)') - Len(Buffer(r))
         /\ ( /\ task[r].pc = "check" /\ Stepped(r)
              /\ task[r].tool_outputs = "text"
              /\ task[r].context_length + task[r].new_context_length
                    < config.max_total_response_length - 2000 )
            => /\ task'[r].pc = "gen"
               /\ task'[r].current_iteration = task[r].current_iteration + 1
               /\ ~task'[r].exceed /\ ~task'[r].void
               /\ Buffer(r)' = Buffer(r)]_vars

C4_Witness ==
    \E r \in DOMAIN task :
        /\ task[r].pc = "done" /\ task[r].tool_outputs = "text"
        /\ task[r].engine_calls = 2 /\ task[r].current_iteration = 1
        /\ ~task[r].exceed /\ ~task[r].void
        /\ \E k \in DOMAIN Buffer(r) :
              Id(Buffer(r)[k]) = TokenId("<error_info_prompt>")

\* C5: every request leaves the turn loop, after at most max_rounds engine
\* calls, by a break that decided exactly one of COMPLETED, EXCEEDED and
\* VOID; the loop is never left because the rounds ran out.  That the loop
\* is left is stated so that a finite run refutes it: a request that has not
\* ended is at an await the engine or the worker pool answers while the
\* gather is still waiting, and every step of a request lowers StepsLeft,
\* a natural number, so no request steps for ever.
Outcomes(r) ==
    { o \in {"COMPLETED", "EXCEEDED", "VOID"} :
        \/ o = "COMPLETED" /\ ~task[r].exceed /\ ~task[r].void
        \/ o = "EXCEEDED" /\ task[r].exceed
        \/ o = "VOID" /\ task[r].void }

\* the awaits a request still has before it, at most
StepsLeft(r) ==
    LET rounds == max_iterations_of(config, prompts.meta_info.is_validate)
                     - task[r].current_iteration
    IN  CASE task[r].pc = "start" -> 3 * rounds + 1
          [] task[r].pc = "gen"   -> 3 * rounds
          [] task[r].pc = "tool"  -> 3 * rounds - 1
          [] task[r].pc = "check" -> 3 * rounds - 2
          [] OTHER                -> 0

C5_LoopEndsDecided ==
    [][\A r \in DOMAIN task :
         /\ task[r].engine_calls <= task[r].max_iterations
         /\ StepsLeft(r) \in Nat
         /\ ~Ended(r) => /\ task[r].pc \in {"start", "gen", "tool", "check"}
                         /\ phase \in {"rolling", "error"}
         /\ Stepped(r) => ~Ended(r) /\ StepsLeft(r)' < StepsLeft(r)
         /\ Ended(r)' => /\ task'[r].left_by = "break"
                         /\ task'[r].engine_calls \in 1..task'[r].max_iterations
                         /\ Cardinality(Outcomes(r)') = 1]_vars

C5_Witness ==
    \E r \in DOMAIN task :
        /\ Ended(r) /\ task[r].left_by = "break"
        /\ task[r].engine_calls = task[r].max_iterations
        /\ task[r].max_iterations = MaxRounds
        /\ task[r].tool_calls = MaxRounds - 1

\* C6: a step of one rollout task changes neither what another task holds
\* (token buffer, image list, image sizes, observations, mask fragments) nor
\* the request objects the tasks were created from.
TaskView(r) ==
    [ buffer |-> Buffer(r), raw_prompt_id |-> tokHeap[task[r].raw_prompt_id],
      images |-> Images(r), sizes |-> task[r].image_size_used_list,
      observations |-> task[r].observations_list, masks |-> Masks(r) ]

RequestObjects ==
    [r \in DOMAIN req_list |->
       [ raw_prompt_id    |-> tokHeap[req_list[r].raw_prompt_id],
         multi_modal_data |-> imgHeap[req_list[r].multi_modal_data],
         fields           |-> req_list[r] ]]

C6_TasksAreIsolated ==
    [][\A r \in DOMAIN task :
         Stepped(r) =>
            /\ RequestObjects' = RequestObjects
            /\ \A q \in DOMAIN task \ {r} :
                  task[q].pc # "start" => TaskView(q)' = TaskView(q)]_vars

C6_Witness ==
    \E r, q \in DOMAIN task :
        /\ r # q /\ task[r].batch_data_id = task[q].batch_data_id
        /\ task[r].tool_calls >= 1 /\ task[q].tool_calls >= 1
        /\ task[r].prompt_token_ids = <<"old", r>>      \* r rolled back
        /\ task[q].pc = "gen" /\ Len(Images(q)) = 2     \* q holds a crop
        /\ Len(Images(r)) = 1

\* the columns of a padded row that stand for all of its columns: the
\* explicit cells and, when the row is padded, the first padding column
Columns(row) == { k \in 1..(Len(row.cells) + 1) : k <= Width(row) }

\* the finished request with the given key
RequestOf(b, o) ==
    CHOOSE r \in DOMAIN task :
        task[r].batch_data_id = b /\ task[r].rollout_offset = o

\* C7: the rows of the returned batch are in ascending (batch_data_id,
\* rollout_offset) order: row b*n + k holds sample k of prompt b (its
\* response, mask, flags and images) next to prompt b's ids and attention
\* mask.
C7_RowsFollowTheirPrompt ==
    phase = "done" =>
        LET n == SamplesPerPrompt(config, prompts.meta_info.is_validate)
        IN  /\ Len(batch.source) = Len(prompts.input_ids) * n
            /\ \A row \in DOMAIN batch.source :
                 LET b == (row - 1) \div n
                     o == (row - 1) % n
                     t == task[RequestOf(b, o)]
                     prompt_length == Len(prompts.input_ids[b + 1])
                     cut == IF Len(t.all_response_ids) < config.max_total_response_length
                            THEN Len(t.all_response_ids)
                            ELSE config.max_total_response_length
                 IN  /\ batch.source[row] = << b, o >>
                     /\ batch.prompts[row] = prompts.input_ids[b + 1]
                     /\ SubSeq(Ids(batch.input_ids[row].cells), 1, prompt_length)
                           = prompts.input_ids[b + 1]
                     /\ SubSeq(batch.attention_mask[row].cells, 1, prompt_length)
                           = prompts.attention_mask[b + 1]
                     /\ SubSeq(batch.responses[row].cells, 1, cut)
                           = SubSeq(t.all_response_ids, 1, cut)
                     /\ SubSeq(batch.multi_turn_response_mask[row].cells,
                               prompt_length + 1, prompt_length + cut)
                           = SubSeq(t.all_response_masks, 1, cut)
                     /\ batch.exceed_mask[row] = t.exceed
                     /\ batch.void_mask[row] = t.void
                     /\ batch.rounds_nums[row] = t.round_num
                     /\ batch.multi_modal_data[row]
                           \in {imgHeap[t.multi_modal_data], NoPayload}

C7_Witness ==
    /\ phase = "done"
    /\ Len(prompts.input_ids) = 2 /\ Len(batch.source) = 4
    /\ batch.responses[2].cells # batch.responses[3].cells
    /\ batch.responses[1].cells # batch.responses[2].cells

\* C8: whatever n, do_sample and is_validate are, post_process builds a
\* rectangular batch: every tensor has one row per rollout request, the
\* responses have max_total_response_length columns and the sequence-aligned
\* tensors prompt_length + max_total_response_length columns.  (Stated for
\* 3-D position ids; the 2-D ones end post_process at line 952.)
Rectangular(b) ==
    LET rows == Len(req_list)
        response_length == config.max_total_response_length
    IN  /\ \A f \in {"prompts", "responses", "input_ids", "attention_mask",
                      "multi_turn_response_mask", "exceed_mask", "void_mask"} :
               Len(b[f]) = rows
        /\ \A row \in 1..rows :
              LET prompt_length == Len(b.prompts[row])
              IN  /\ prompt_length = Len(prompts.input_ids[1])
                  /\ Width(b.responses[row]) = response_length
                  /\ \A f \in {"input_ids", "attention_mask",
                                "multi_turn_response_mask"} :
                        Width(b[f][row]) = prompt_length + response_length

C8_BatchIsRectangular ==
    [][( /\ phase = "rolling" /\ phase' # "rolling"
         /\ \A r \in DOMAIN task : task[r].pc = "done"
         /\ prompts.position_dim = 3 )
       => phase' = "done" /\ Rectangular(batch')]_vars


\* C9: in the mask of a finished request, and in its row of the batch, a
\* position is 1 only where the token was produced by the engine in an
\* assistant turn: prompt positions, the tokens of observation turns (the
\* expanded image-pad tokens among them) and padding positions are 0.
C9_MaskOnlyOnAssistantTokens ==
    /\ \A r \in DOMAIN task :
          task[r].pc = "done" =>
             /\ Len(task[r].all_response_masks) = Len(task[r].all_response_ids)
             /\ \A k \in DOMAIN task[r].all_response_masks :
                   /\ task[r].all_response_masks[k] \in {0, 1}
                   /\ task[r].all_response_masks[k] = 1
                         => Origin(task[r].all_response_ids[k]) = "assistant"
    /\ phase = "done" =>
          \A row \in DOMAIN batch.multi_turn_response_mask :
             LET mask == batch.multi_turn_response_mask[row]
                 ids  == batch.input_ids[row]
             IN  /\ Width(mask) = Width(ids)
                 /\ \A k \in Columns(mask) \cup Columns(ids) :
                       /\ Cell(mask, k) \in {0, 1}
                       /\ Cell(mask, k) = 1 => Origin(Cell(ids, k)) = "assistant"

C9_Witness ==
    /\ phase = "done"
    /\ \E row \in DOMAIN batch.input_ids :
          LET mask == batch.multi_turn_response_mask[row]
              ids  == batch.input_ids[row]
          IN  /\ ids.pad > 0
              /\ \E k \in DOMAIN ids.cells :
                    /\ Origin(ids.cells[k]) = "observation"
                    /\ Id(ids.cells[k]) = image_pad_token
                    /\ Id(ids.cells[k + 1]) = image_pad_token
                    /\ Cell(mask, k) = 0
              /\ \E k \in DOMAIN ids.cells :
                    Origin(ids.cells[k]) = "assistant" /\ Cell(mask, k) = 1

\* C10 as the claim states it: in every row of the batch the mask is 0 at
\* every position at or after the first <|im_end|> of the response.
FirstEos(response) ==
    IF Has(Ids(response.cells), IM_END)
    THEN IndexOf(Ids(response.cells), IM_END) ELSE Width(response) + 1

C10_ZeroFromFirstEos ==
    phase = "done" =>
        \A row \in DOMAIN batch.responses :
           LET response == batch.responses[row]
               mask == batch.multi_turn_response_mask[row]
               prompt_length == Len(batch.prompts[row])
           IN  \A k \in Columns(response) :
                  k >= FirstEos(response) => Cell(mask, prompt_length + k) = 0

\* C10 as amended: at or after the first <|im_end|> of the response the mask
\* is 0 exactly at the positions that hold no token of the engine: the
\* tokens of observation turns, the <|im_end|> that opens them included, and
\* padding.  The <|im_end|> the engine emitted and the assistant turns after
\* an observation turn are 1.
C10_ZeroFromFirstEosButAssistant ==
    phase = "done" =>
        \A row \in DOMAIN batch.responses :
           LET response == batch.responses[row]
               mask == batch.multi_turn_response_mask[row]
               prompt_length == Len(batch.prompts[row])
           IN  \A k \in Columns(response) :
                  k >= FirstEos(response) =>
                     ( Cell(mask, prompt_length + k) = 0
                         <=> Origin(Cell(response, k)) # "assistant" )

C10_Witness ==
    /\ phase = "done"
    /\ \E row \in DOMAIN batch.responses :
          LET response == batch.responses[row]
              mask == batch.multi_turn_response_mask[row]
              prompt_length == Len(batch.prompts[row])
          IN  \E i, j, k \in DOMAIN response.cells :
                 /\ i = FirstEos(response) /\ i < j /\ j < k
                 /\ Origin(response.cells[i]) = "observation"
                 /\ Cell(mask, prompt_length + i) = 0
                 /\ Origin(response.cells[j]) = "observation"
                 /\ Origin(response.cells[k]) = "assistant"
                 /\ Id(response.cells[k]) = IM_END
                 /\ Cell(mask, prompt_length + k) = 1
                 /\ response.pad > 0

\* C11: in the returned batch there is one row per request, none dropped;
\* exceed_mask is true exactly in the rows of the requests that ended on a
\* budget (their last response called the tool and the loop broke on the
\* image, round or length limit), void_mask exactly in the rows of the
\* requests that ended VOID (no tool call, and cut by length or without a
\* final answer block).
EndedExceeded(t) == HasGroundingBlock(t.decoded_resp_)

EndedVoid(t) ==
    /\ ~HasGroundingBlock(t.decoded_resp_)
    /\ t.finish_reason = "length" \/ ~EndsWithAnswerBlock(t.decoded_resp_)

C11_FlagsFollowOutcome ==
    phase = "done" =>
        LET n == SamplesPerPrompt(config, prompts.meta_info.is_validate)
        IN  /\ Len(batch.exceed_mask) = Len(req_list)
            /\ Len(batch.void_mask) = Len(req_list)
            /\ Len(batch.responses) = Len(req_list)
            /\ \A row \in DOMAIN batch.exceed_mask :
                 LET t == task[RequestOf((row - 1) \div n, (row - 1) % n)]
                 IN  /\ batch.exceed_mask[row] <=> EndedExceeded(t)
                     /\ batch.void_mask[row] <=> EndedVoid(t)

C11_Witness ==
    /\ phase = "done"
    /\ \E i, j, k \in DOMAIN batch.exceed_mask :
          /\ batch.exceed_mask[i] /\ ~batch.void_mask[i]
          /\ ~batch.exceed_mask[j] /\ batch.void_mask[j]
          /\ ~batch.exceed_mask[k] /\ ~batch.void_mask[k]

\* C12: outside validation post_process sets the payload of exactly the rows
\* classified invalid to None, leaves the payload of the other rows as the
\* request left it and keeps the number of rows of every field; in
\* validation no payload is cleared and there is no valid_mask.
C12_InvalidRowsCleared ==
    phase = "done" =>
        LET n == SamplesPerPrompt(config, prompts.meta_info.is_validate)
            payload(row) ==
                imgHeap[task[RequestOf((row - 1) \div n,
                                       (row - 1) % n)].multi_modal_data]
        IN  /\ \A f \in {"prompts", "responses", "input_ids", "attention_mask",
                          "position_ids", "multi_turn_response_mask",
                          "exceed_mask", "void_mask", "multi_modal_data",
                          "rounds_nums"} :
                   Len(batch[f]) = Len(req_list)
            /\ prompts.meta_info.is_validate =>
                  /\ batch.valid_mask = <<>>
                  /\ \A row \in DOMAIN batch.multi_modal_data :
                        batch.multi_modal_data[row] = payload(row)
            /\ ~prompts.meta_info.is_validate =>
                  /\ Len(batch.valid_mask) = Len(req_list)
                  /\ \A row \in DOMAIN batch.multi_modal_data :
                        batch.multi_modal_data[row] =
                           IF batch.invalid_mask[row] THEN NoPayload
                           ELSE payload(row)

C12_Witness ==
    /\ phase = "done" /\ ~prompts.meta_info.is_validate
    /\ \E i, j \in DOMAIN batch.multi_modal_data :
          /\ batch.invalid_mask[i] /\ batch.multi_modal_data[i] = NoPayload
          /\ ~batch.invalid_mask[j] /\ Len(batch.multi_modal_data[j]) = 2

\* C13: with 2-D position ids post_process completes, and in every row the
\* position ids are the prompt's, unchanged, followed by
\* last_prompt_position + 1, ..., + response_length.  (Stated for the
\* batches whose prompt rows match the requests: do_sample or one sample per
\* prompt.)
C13_PositionIdsRunOn ==
    [][( /\ phase = "rolling" /\ phase' # "rolling"
         /\ \A r \in DOMAIN task : task[r].pc = "done"
         /\ prompts.position_dim = 2
         /\ \/ prompts.meta_info.do_sample
            \/ SamplesPerPrompt(config, prompts.meta_info.is_validate) = 1 )
       => /\ phase' = "done"
          /\ \A row \in DOMAIN batch'.position_ids :
               LET n == SamplesPerPrompt(config, prompts.meta_info.is_validate)
                   prompt_position_ids ==
                       PaddedPromptPositions(((row - 1) \div n) + 1)
                   prompt_length == Len(prompt_position_ids)
               IN  /\ Width(batch'.position_ids[row])
                         = prompt_length + config.max_total_response_length
                   /\ \A k \in 1..prompt_length :
                         Cell(batch'.position_ids[row], k) = prompt_position_ids[k]
                   /\ \A k \in 1..config.max_total_response_length :
                         Cell(batch'.position_ids[row], prompt_length + k)
                            = Last(prompt_position_ids) + k]_vars

----------------------------------------------------------------------------
(* Vocabulary of the estimator properties *)

Estimated(estimator) == adv.pc = "done" /\ adv.estimator = estimator

Rows == DOMAIN adv.token_level_rewards
Cols(i) == DOMAIN adv.token_level_rewards[i]

\* the scalar reward of row i, before any normalisation
RawScore(i) == RSum(adv.token_level_rewards[i])

Members(i) == { j \in Rows : adv.index[j] = adv.index[i] }

RAbs(x) == << Abs(x[1]), x[2] >>

\* x * |x| of the value a std-divided score tends to as epsilon tends to 0
SignedSquareInLimit(cell) ==
    RDiv(RMul(cell.num, RAbs(cell.num)), cell.den.std_squared)

\* rows i and j are a whole group whose scalar scores are 1 and 3
ScoresOneAndThree(i, j) ==
    /\ Members(i) = {i, j}
    /\ RawScore(i) = Num(1)
    /\ RawScore(j) = Num(3)

(* C14, as stated: with norm_adv_by_std_in_grpo=True, two rows of one group *)
(* whose scores are 1 and 3 get the normalized scores -1 and 1 as epsilon   *)
(* tends to 0, the group's standard deviation being 1.                      *)
C14_OneAndThreeGiveUnitScores ==
    (Estimated("grpo") /\ adv.norm_adv_by_std_in_grpo) =>
        \A i, j \in Rows : ScoresOneAndThree(i, j) =>
            /\ adv.out.scores[i].den.std_squared = One
            /\ SignedSquareInLimit(adv.out.scores[i]) = Num(-1)
            /\ SignedSquareInLimit(adv.out.scores[j]) = Num(1)

(* C14, amended: the group mean is 2 and the standard deviation is the     *)
(* sample one, sqrt(2), so the normalized scores tend to -1/sqrt(2) and    *)
(* 1/sqrt(2): their signed squares are -1/2 and 1/2.                       *)
C14_OneAndThreeGiveSampleStdScores ==
    (Estimated("grpo") /\ adv.norm_adv_by_std_in_grpo) =>
        \A i, j \in Rows : ScoresOneAndThree(i, j) =>
            /\ adv.out.scores[i].num = Num(-1)
            /\ adv.out.scores[j].num = Num(1)
            /\ adv.out.scores[i].den = StdPlusEps(Num(2))
            /\ adv.out.scores[j].den = StdPlusEps(Num(2))
            /\ SignedSquareInLimit(adv.out.scores[i]) = Frac(-1, 2)
            /\ SignedSquareInLimit(adv.out.scores[j]) = Frac(1, 2)

C14_Witness ==
    /\ Estimated("grpo")
    /\ adv.norm_adv_by_std_in_grpo
    /\ \E i, j \in Rows :
          /\ ScoresOneAndThree(i, j)
          /\ \E t \in Cols(i) : adv.out.advantages[i][t].num = Num(-1)
          /\ \E t \in Cols(j) : adv.out.advantages[j][t].num = Num(1)

Alone(i) == Members(i) = {i}

\* the scalar advantage of row i, tiled over its positions and masked
Broadcast(scalar, i) ==
    [t \in Cols(i) |-> Plain(RMul(scalar, Num(adv.eos_mask[i][t])))]

C16_RlooGroupSumsToZero ==
    Estimated("rloo") =>
        \A i \in Rows : ~Alone(i) =>
            LET k     == Cardinality(Members(i))
                total == RSum(id2score([j \in Rows |-> RawScore(j)], adv.index, adv.index[i]))
                mean  == RDiv(total, Num(k))
                given == id2score([j \in Rows |-> adv.out.scores[j].num],
                                  adv.index, adv.index[i])
            IN  /\ adv.out.scores[i] = Plain(RMul(RSub(RawScore(i), mean), Frac(k, k - 1)))
                /\ Len(given) = k
                /\ RSum(given) = Zero

C16_Witness ==
    /\ Estimated("rloo")
    /\ \E i, j \in Rows :
          /\ i # j
          /\ j \in Members(i)
          /\ Cardinality(Members(i)) = 3
          /\ adv.out.scores[i].num # Zero
          /\ adv.out.scores[i].num # adv.out.scores[j].num

MeanOnly == ~adv.norm_adv_by_std_in_grpo /\ adv.norm_by_importance # "v1"

(* C17, as stated: in mean-only mode compute_grpo_outcome_advantage gives 0 *)
(* at every position of a row whose group has exactly one member.           *)
C17_GrpoAloneMeanOnlyIsZero ==
    (Estimated("grpo") /\ MeanOnly) =>
        \A i \in Rows : Alone(i) =>
            \A t \in Cols(i) : adv.out.advantages[i][t].num = Zero

(* C17, amended: in mean-only mode a row whose group has exactly one       *)
(* member has the mean 0 subtracted, so its advantage is its own scalar    *)
(* reward at every position the mask keeps, and 0 where the mask is 0.     *)
C17_GrpoAloneMeanOnlyKeepsItsScore ==
    (Estimated("grpo") /\ MeanOnly) =>
        \A i \in Rows : Alone(i) =>
            /\ adv.out.scores[i] = Plain(RawScore(i))
            /\ adv.out.advantages[i] = Broadcast(RawScore(i), i)
            /\ adv.out.returns[i] = Broadcast(RawScore(i), i)

C17_Witness ==
    /\ Estimated("grpo")
    /\ MeanOnly
    /\ \E i \in Rows :
          /\ Alone(i)
          /\ RawScore(i) = Num(1)
          /\ \E t \in Cols(i) : adv.out.advantages[i][t] = Plain(Num(1))
          /\ \E t \in Cols(i) : adv.eos_mask[i][t] = 0

\* what a score is divided by, epsilon left out; <<1, 0>> stands for +infinity
DivisorLessEpsilon(den) ==
    CASE den.kind = "1" -> One
      [] den.kind = "std + epsilon" ->
            IF den.std_squared = One THEN One ELSE << "sqrt", den.std_squared >>
      [] den.kind = "scale / std + epsilon" ->
            IF den.std_squared = One THEN den.scale
            ELSE IF den.std_squared = Zero THEN << 1, 0 >>
            ELSE << "scale / sqrt", den.scale, den.std_squared >>

(* C18: for a row whose group has exactly one member the statistics of     *)
(* compute_grpo_outcome_advantage are mean 0 and standard deviation 1 in   *)
(* every mode, so the divisor is 1 + epsilon in std mode and               *)
(* scale + epsilon in the 'v1' mode, never zero.                           *)
C18_GrpoAloneUnitStatistics ==
    Estimated("grpo") =>
        \A i \in Rows : Alone(i) =>
            /\ adv.out.scores[i].num = RawScore(i)
            /\ adv.norm_adv_by_std_in_grpo =>
                  /\ adv.out.scores[i].den = StdPlusEps(One)
                  /\ DivisorLessEpsilon(adv.out.scores[i].den) = One
            /\ (~adv.norm_adv_by_std_in_grpo /\ adv.norm_by_importance = "v1") =>
                  /\ adv.out.scores[i].den = ScaleOverStd(adv.scale, One)
                  /\ DivisorLessEpsilon(adv.out.scores[i].den) = adv.scale
            /\ MeanOnly => adv.out.scores[i].den = Undivided
            /\ DivisorLessEpsilon(adv.out.scores[i].den) \in {One, adv.scale}
            /\ adv.scale[1] > 0

C18_Witness ==
    /\ Estimated("grpo")
    /\ ~adv.norm_adv_by_std_in_grpo
    /\ adv.norm_by_importance = "v1"
    /\ \E i, j \in Rows :
          /\ Alone(i)
          /\ RawScore(i) = Num(3)
          /\ DivisorLessEpsilon(adv.out.scores[i].den) = Frac(1, 4)
          /\ ~Alone(j)
          /\ DivisorLessEpsilon(adv.out.scores[j].den) = << 1, 0 >>

IsZero(cell) == cell.num = Zero

(* C19: after any of the five estimators, the advantage and the return are *)
(* 0 at every position where the response mask is 0.                       *)
C19_MaskedPositionsAreZero ==
    adv.pc = "done" =>
        \A i \in Rows : \A t \in Cols(i) :
            adv.eos_mask[i][t] = 0 =>
                /\ IsZero(adv.out.advantages[i][t])
                /\ IsZero(adv.out.returns[i][t])

(* C20: the advantage compute_gae_advantage_return holds before whitening  *)
(* satisfies A_t = delta_t + gamma*lambda*A_{t+1} with                     *)
(* delta_t = R_t + gamma*V_{t+1} - V_t, V and A being 0 beyond the last    *)
(* step, and the return is that advantage plus the value at every          *)
(* position; R = [[0,0,1]], V = [[0,0,0]], gamma = lambda = 1 give         *)
(* [1,1,1] for both.                                                       *)
C20_GaeRecurrence ==
    Estimated("gae") =>
        /\ \A i \in Rows : \A t \in Cols(i) :
              LET A     == adv.out.unwhitened[i]
                  V     == adv.values[i]
                  last  == Len(adv.token_level_rewards[i])
                  Vnext == IF t = last THEN Zero ELSE V[t + 1]
                  Anext == IF t = last THEN Zero ELSE A[t + 1]
                  delta == RSub(RAdd(adv.token_level_rewards[i][t],
                                     RMul(adv.gamma, Vnext)), V[t])
              IN  /\ A[t] = RAdd(delta, RMul(RMul(adv.gamma, adv.lam), Anext))
                  /\ adv.out.returns[i][t] = Plain(RAdd(A[t], V[t]))
        /\ ( /\ adv.token_level_rewards = << << Zero, Zero, One >> >>
             /\ adv.values = << << Zero, Zero, Zero >> >>
             /\ adv.gamma = One
             /\ adv.lam = One )
           => /\ adv.out.unwhitened = << << One, One, One >> >>
              /\ adv.out.returns = << << Plain(One), Plain(One), Plain(One) >> >>

C20_Witness ==
    /\ Estimated("gae")
    /\ adv.token_level_rewards = << << Zero, Zero, One >> >>
    /\ adv.values = << << Zero, Zero, Zero >> >>
    /\ adv.eos_mask = << << 1, 1, 1 >> >>
    /\ adv.gamma = One
    /\ adv.lam = One
    /\ adv.out.unwhitened = << << One, One, One >> >>
    /\ adv.out.returns = << << Plain(One), Plain(One), Plain(One) >> >>

----------------------------------------------------------------------------
(* Vocabulary of the loss properties *)

Computed(function) == loss.pc = "done" /\ loss.function = function

(* C21: in compute_policy_loss_gspo, for every batch shape, every position *)
(* of row i is weighted by the importance ratio of row i alone.            *)
C21_RowWeightedByOwnRatio ==
    (Computed("compute_policy_loss_gspo") /\ loss.cliprange # None) =>
        /\ loss.out.raised = "none"
        /\ DOMAIN loss.out.pg_losses = DOMAIN loss.advantages
        /\ \A i \in DOMAIN loss.advantages :
              /\ DOMAIN loss.out.pg_losses[i] = DOMAIN loss.advantages[i]
              /\ \A t \in DOMAIN loss.advantages[i] :
                    /\ loss.out.pg_losses[i][t].pg_losses1.minus = loss.advantages[i][t]
                    /\ loss.out.pg_losses[i][t].pg_losses1.times =
                          seq_ratio_of_row(loss.old_log_prob[i], loss.log_prob[i],
                                           loss.response_mask[i])

\* the kept positions of a call's mask
Kept(mask) == { pos \in (DOMAIN mask) \X (1..Len(mask[1])) : mask[pos[1]][pos[2]] = 1 }

\* the kept positions where the ratio left [1 - c, 1 + c] on the side that the
\* sign of the advantage penalises
ClippedAt(c) ==
    { pos \in Kept(loss.eos_mask) :
        LET a     == loss.advantages[pos[1]][pos[2]]
            ratio == RDiv(loss.log_prob[pos[1]][pos[2]], loss.old_log_prob[pos[1]][pos[2]])
        IN  \/ RLess(Zero, a) /\ RLess(RAdd(One, c), ratio)
            \/ RLess(a, Zero) /\ RLess(ratio, RSub(One, c)) }

(* C22: for fixed log-probabilities, advantages and mask, the clip fraction *)
(* of compute_policy_loss, the fraction of kept elements whose clipped loss *)
(* is strictly greater than the unclipped one, does not decrease when the   *)
(* symmetric cliprange is made smaller.                                     *)
C22_ClipFractionGrowsAsRangeShrinks ==
    (Computed("compute_policy_loss") /\ loss.cliprange # None /\ loss.cliprange_high = None) =>
        /\ loss.out.raised = "none"
        /\ loss.out_narrower.raised = "none"
        /\ ~RLess(loss.cliprange, loss.narrower)
        /\ ~RLess(loss.out_narrower.pg_clipfrac, loss.out.pg_clipfrac)
        /\ loss.out.pg_clipfrac =
              Frac(Cardinality(ClippedAt(loss.cliprange)), Cardinality(Kept(loss.eos_mask)))
        /\ loss.out_narrower.pg_clipfrac =
              Frac(Cardinality(ClippedAt(loss.narrower)), Cardinality(Kept(loss.eos_mask)))

C22_Witness ==
    /\ Computed("compute_policy_loss")
    /\ loss.cliprange = One
    /\ loss.cliprange_high = None
    /\ loss.narrower = Frac(1, 5)
    /\ loss.out.pg_clipfrac = Zero
    /\ loss.out_narrower.pg_clipfrac = One
    /\ Cardinality(Kept(loss.eos_mask)) = 2

AllOnesMask(mask) == \A i \in DOMAIN mask : \A t \in DOMAIN mask[i] : mask[i][t] = 1

\* the plain mean of all elements of a matrix
PlainMean(matrix) ==
    RDiv(RSum(Concat(matrix)), Num(Len(matrix) * Len(matrix[1])))

(* C23: with an all-ones mask, agg_loss in mode 'seq-mean-token-sum-norm'   *)
(* and agg_loss in mode 'token-mean' both return the plain mean of all     *)
(* elements of the loss matrix, whatever its shape.                        *)
C23_NormAndTokenMeanCoincide ==
    ( /\ Computed("agg_loss")
      /\ AllOnesMask(loss.loss_mask)
      /\ loss.loss_agg_mode \in {"seq-mean-token-sum-norm", "token-mean"} ) =>
        /\ loss.out.raised = "none"
        /\ loss.out.loss = PlainMean(loss.loss_mat)

C23_Witness ==
    /\ Computed("agg_loss")
    /\ AllOnesMask(loss.loss_mask)
    /\ loss.loss_agg_mode = "seq-mean-token-sum-norm"
    /\ Len(loss.loss_mat) = 3
    /\ Len(loss.loss_mat[1]) = 1
    /\ loss.out.loss = Frac(1, 3)

(* C26: for every pair of finite log-probabilities, however large in       *)
(* magnitude, every element kl_penalty returns for 'low_var_kl' is         *)
(* exp(ref - logp) - (ref - logp) - 1 limited to [-10, 10]: it lies in     *)
(* [-10, 10], is 0 for equal inputs, not negative, and 10 once the         *)
(* difference is extreme.                                                  *)
C26_LowVarKlClamped ==
    (Computed("kl_penalty") /\ loss.kl_penalty = "low_var_kl") =>
        /\ loss.out.raised = "none"
        /\ \A i \in DOMAIN loss.logprob : \A t \in DOMAIN loss.logprob[i] :
              LET x  == loss.out.kl[i][t]
                  kl == float_sub(loss.ref_logprob[i][t], loss.logprob[i][t])
              IN  /\ Len(x) = 2
                  /\ ~RLess(x[1], Num(-10))
                  /\ ~RLess(x[2], x[1])
                  /\ ~RLess(Num(10), x[2])
                  /\ kl = 0 => x = << Zero, Zero >>
                  /\ (kl >= 4 \/ kl <= -11) => x = << Num(10), Num(10) >>
                  /\ kl \in {-4, -3, -1, 1, 3} => ~RLess(x[1], Zero) /\ RLess(x[1], Num(10))

C26_Witness ==
    /\ Computed("kl_penalty")
    /\ loss.kl_penalty = "low_var_kl"
    /\ loss.logprob = << << Lowest, 0 >> >>
    /\ loss.ref_logprob = << << 0, Lowest >> >>
    /\ loss.out.kl = << << << Num(10), Num(10) >>, << Num(10), Num(10) >> >> >>

----------------------------------------------------------------------------
(* Vocabulary of the controller properties *)

Updated == kl_ctrl.pc = "ready" /\ kl_ctrl'.pc = "ready" /\ kl_ctrl'.updates = kl_ctrl.updates + 1

\* current_kl / target - 1 limited to [-0.2, 0.2]
LimitedError(current_kl, target) ==
    LET error == RSub(RDiv(current_kl, target), One)
    IN  IF RLess(error, Frac(-1, 5)) THEN Frac(-1, 5)
        ELSE IF RLess(Frac(1, 5), error) THEN Frac(1, 5)
        ELSE error

C25_AdaptiveNeedsPositiveHorizon ==
    kl_ctrl.pc \in {"ready", "raised"} =>
        LET own == kl_ctrl.config.critic.kl_ctrl
        IN  /\ (own.type = "adaptive" /\ own.horizon <= 0) =>
                  /\ kl_ctrl.pc = "raised"
                  /\ kl_ctrl.error = "AssertionError"
            /\ (own.type = "adaptive" /\ own.horizon > 0) =>
                  /\ kl_ctrl.pc = "ready"
                  /\ kl_ctrl.class = "AdaptiveKLController"
                  /\ kl_ctrl.target = own.target_kl
                  /\ kl_ctrl.horizon = own.horizon
                  /\ kl_ctrl.updates = 0 => kl_ctrl.value = own.kl_coef
            /\ own.type \notin {"adaptive", "fixed"} =>
                  /\ kl_ctrl.pc = "raised"
                  /\ kl_ctrl.error = "ValueError"

----------------------------------------------------------------------------
\* the image observations a request appended and did not roll back: the
\* user turns still in its token buffer that carry an image placeholder
ImageObservationsKept(r) ==
    Cardinality({ k \in (task[r].prefix_length + 1)..Len(Buffer(r)) :
                    /\ Origin(Buffer(r)[k]) = "observation"
                    /\ Id(Buffer(r)[k]) = image_pad_token })

\* the request rolled the observation of its last tool call back
RolledBackLast(r) == task[r].prompt_token_ids = <<"old", r>>

\* C27: when a request has ended, whatever assistant turns, image
\* observations, error observations and roll backs it went through, its
\* token buffer holds beyond the original prompt exactly as many tokens as
\* the mask fragments after the prompt fragment hold together, and the image
\* list, the image-size list and the observation list each hold one entry
\* more than the image observations appended and not rolled back.
C27_ListsStayAligned ==
    \A r \in DOMAIN task :
        Ended(r) =>
            /\ Len(Buffer(r)) - task[r].prefix_length
                  = Len(Concat(Tail(Masks(r))))
            /\ Len(Images(r)) = ImageObservationsKept(r) + 1
            /\ Len(task[r].image_size_used_list) = ImageObservationsKept(r) + 1
            /\ Len(task[r].observations_list) = ImageObservationsKept(r) + 1

C27_Witness ==
    \E r \in DOMAIN task :
        /\ Ended(r) /\ RolledBackLast(r)
        /\ task[r].engine_calls = 2 /\ task[r].tool_calls = 2
        /\ task[r].tool_outputs = "image"       \* appended, then popped
        /\ ImageObservationsKept(r) = 0
        /\ \E k \in DOMAIN Buffer(r) :
              Id(Buffer(r)[k]) = TokenId("<error_info_prompt>")

----------------------------------------------------------------------------
\* C28: in validation a request never calls the engine more often than
\* val_max_generation_round, 1 included, and never holds more images than
\* val_limit_mm_per_prompt; in training the limits are max_generation_round
\* and limit_mm_per_prompt.
C28_LimitsFollowTheMode ==
    \A r \in DOMAIN task :
        IF prompts.meta_info.is_validate
        THEN /\ task[r].engine_calls <= config.val_max_generation_round
             /\ Len(Images(r)) <= config.val_limit_mm_per_prompt
        ELSE /\ task[r].engine_calls <= config.max_generation_round
             /\ Len(Images(r)) <= config.limit_mm_per_prompt

----------------------------------------------------------------------------
\* the request returned from _async_rollout_a_request
Finished(r) == task[r].pc = "done"

\* C29: no finished request is both exceeded and void, and whatever the
\* outcome the round_num it reports is the number of engine calls it made,
\* at least 1 and at most the round limit of its loop.
C29_RoundNumCountsEngineCalls ==
    \A r \in DOMAIN task :
        Finished(r) =>
            /\ ~(task[r].exceed /\ task[r].void)
            /\ task[r].round_num = task[r].engine_calls
            /\ task[r].round_num \in 1..task[r].max_iterations

C29_Witness ==
    \E r, q \in DOMAIN task :
        /\ Finished(r) /\ Outcomes(r) = {"EXCEEDED"}
        /\ task[r].round_num = 2 /\ task[r].tool_calls = 1
        /\ Finished(q) /\ Outcomes(q) = {"VOID"} /\ task[q].round_num = 1

----------------------------------------------------------------------------
\* the request is about to call the engine for a round after the first
CallsEngineAgain(r) == task[r].pc = "gen" /\ task[r].current_iteration >= 1

\* C30: a request that starts with at most max_image_num images holds at
\* most max_image_num images in every state of its rollout and in the
\* multimodal payload stored on it at the end, and whenever it calls the
\* engine for a round after the first its context_length is strictly below
\* max_total_response_length - 2000.
C30_ImagesAndContextStayInBudget ==
    \A r \in DOMAIN task :
        ( /\ task[r].pc # "start"
          /\ Len(imgHeap[req_list[r].multi_modal_data]) <= task[r].max_image_num )
        => /\ Len(Images(r)) <= task[r].max_image_num
           /\ CallsEngineAgain(r) =>
                 task[r].context_length
                    < config.max_total_response_length - 2000

C30_Witness ==
    \E r, q \in DOMAIN task :
        /\ CallsEngineAgain(r)
        /\ Len(Images(r)) = 2 /\ task[r].max_image_num = 2
        /\ Len(imgHeap[req_list[r].multi_modal_data]) = 1
        /\ Finished(q) /\ task[q].engine_calls = 2
        /\ Len(Images(q)) = 2

============================================================================
